---- MODULE Spec2Model ----
(***************************************************************************)
(* FreshTrack backend: the label normalizer and the reference data store   *)
(* (services/storageService.js), the detection postprocessor with its      *)
(* non-maximum suppression (services/imageProcessor.js and its sibling     *)
(* implementations), and the request handlers of server.js.                *)
(*                                                                         *)
(* JavaScript strings that the code inspects character by character        *)
(* (labels, dataset keys) are sequences of UTF-16 code units, each unit a  *)
(* one-character string; the unit U+00DF is written "U+00DF".  Numbers of  *)
(* the postprocessor are exact rationals [n, d] extended with NaN and the  *)
(* two infinities, so that a division by zero behaves as it does in        *)
(* IEEE-754 arithmetic.                                                    *)
(***************************************************************************)
EXTENDS Integers, Sequences, FiniteSets, TLC

VARIABLES
    \* ---- label normalizer harness
    normPc,        \* "input" | "once" | "twice"
    label,         \* the raw label handed to normalizeLabel
    normOnce,      \* normalizeLabel(label)
    normTwice,     \* normalizeLabel(normalizeLabel(label))
    \* ---- nonMaxSuppression, one call
    nmsPc,         \* "idle" | "call" | "loop" | "done"
    nmsInput,      \* the caller's list as it was when the call was made
    callerBoxes,   \* the caller's array object (sorted in place by the call)
    boxes,         \* the local working set `boxes`
    selected,      \* the local list `selected`
    threshold,     \* the parameter `threshold`
    boxesIsCallers, \* whether `boxes` still names the caller's array
    lastRound,     \* ghost: [current, before, after] of the last loop round
    \* ---- the reference data store and the process
    file,          \* the override file (process.env.STORAGE_PATH)
    proc,          \* "down" | "up"
    storageData,   \* storageService.storageData, the active dataset
    defaults,      \* the object DEFAULT_STORAGE_DATA
    reply,         \* the last response of a storage route
    loadLog,       \* ghost: the file and the i/o outcome the last load saw
    \* ---- POST /api/detect
    uploads,       \* names of the files in the upload directory
    requests,      \* per detection request: where it stands, responses sent
    \* ---- loadModel
    loadImpl,      \* which module holds the session, and who calls it
    session,       \* this.model / session: "null" | "loaded"
    loaders,       \* per caller of loadModel: where the call stands
    creations,     \* calls of ort.InferenceSession.create made so far
    loadFailed,    \* ghost: a creation has failed
    \* ---- postprocess, one call
    postPc,        \* "idle" | "input" | "done"
    postImpl,      \* which implementation is called
    output,        \* the output tensor: dims and data
    env,           \* the threshold variables of process.env
    postArgs,      \* the arguments that follow outputData (unnamed/part_001)
    postResult,    \* how the call ended: Return(detections) or Throw
    postRows       \* ghost: how each round of the loop over the rows ended

normVars == <<normPc, label, normOnce, normTwice>>
nmsVars  == <<nmsPc, nmsInput, callerBoxes, boxes, boxesIsCallers, selected,
             threshold, lastRound>>
storeVars == <<file, proc, storageData, defaults, reply, loadLog>>
detectVars == <<uploads, requests>>
loadVars   == <<loadImpl, session, loaders, creations, loadFailed>>
postVars   == <<postPc, postImpl, output, env, postArgs, postResult, postRows>>
vars     == <<normVars, nmsVars, storeVars, detectVars, loadVars, postVars>>

(***************************************************************************)
(* Sequence helpers                                                        *)
(***************************************************************************)
Range(s) == {s[i] : i \in 1..Len(s)}

RECURSIVE Flatten(_)
Flatten(ss) == IF ss = <<>> THEN <<>> ELSE Head(ss) \o Flatten(Tail(ss))

\* F applied to v: the value v under a name of its own, worked out once
\* however often F uses it
With(v, F(_)) == CHOOSE r \in { F(x) : x \in {v} } : TRUE

\* every sequence over S of length at most n
SeqsUpTo(S, n) == UNION {[1..k -> S] : k \in 0..n}

(***************************************************************************)
(* JavaScript strings                                                      *)
(***************************************************************************)
LowerLetters == <<"a","b","c","d","e","f","g","h","i","j","k","l","m",
                  "n","o","p","q","r","s","t","u","v","w","x","y","z">>
UpperLetters == <<"A","B","C","D","E","F","G","H","I","J","K","L","M",
                  "N","O","P","Q","R","S","T","U","V","W","X","Y","Z">>
SharpS == "U+00DF"
WhiteSpace == {" ", "\t"}

LowerSet == Range(LowerLetters)
UpperSet == Range(UpperLetters)
\* the upper-case letter of each lower-case letter, and the reverse
UpperOf == [c \in LowerSet |-> UpperLetters[CHOOSE i \in 1..26 : LowerLetters[i] = c]]
LowerOf == [c \in UpperSet |-> LowerLetters[CHOOSE i \in 1..26 : UpperLetters[i] = c]]

\* String.prototype.toUpperCase on one code unit (Unicode SpecialCasing:
\* U+00DF has no single upper-case unit and becomes "SS")
UpperUnit(c) ==
    IF c \in LowerSet THEN <<UpperOf[c]>>
    ELSE IF c = SharpS THEN <<"S", "S">>
    ELSE <<c>>

\* String.prototype.toLowerCase on one code unit
LowerUnit(c) ==
    IF c \in UpperSet THEN <<LowerOf[c]>>
    ELSE <<c>>

toUpperCase(s) == Flatten([i \in 1..Len(s) |-> UpperUnit(s[i])])
toLowerCase(s) == Flatten([i \in 1..Len(s) |-> LowerUnit(s[i])])

\* s.slice(k) for k >= 0 (k counts from 0 as in JavaScript)
slice(s, k) == IF k >= Len(s) THEN <<>> ELSE SubSeq(s, k + 1, Len(s))

\* s.charAt(0): the empty string when s is empty
charAt0(s) == IF s = <<>> THEN <<>> ELSE <<s[1]>>

startsWith(s, p) == Len(s) >= Len(p) /\ SubSeq(s, 1, Len(p)) = p

RECURSIVE trimStart(_)
trimStart(s) ==
    IF s # <<>> /\ Head(s) \in WhiteSpace THEN trimStart(Tail(s)) ELSE s

RECURSIVE trimEnd(_)
trimEnd(s) ==
    IF s # <<>> /\ s[Len(s)] \in WhiteSpace
    THEN trimEnd(SubSeq(s, 1, Len(s) - 1)) ELSE s

trim(s) == trimEnd(trimStart(s))

\* s.split('_'): always at least one part
RECURSIVE split(_)
split(s) ==
    IF \A i \in 1..Len(s) : s[i] # "_" THEN <<s>>
    ELSE LET k == CHOOSE i \in 1..Len(s) :
                      s[i] = "_" /\ \A j \in 1..(i - 1) : s[j] # "_"
         IN  <<SubSeq(s, 1, k - 1)>> \o split(SubSeq(s, k + 1, Len(s)))

\* parts.join('_')
RECURSIVE join(_)
join(parts) ==
    IF Len(parts) = 0 THEN <<>>
    ELSE IF Len(parts) = 1 THEN parts[1]
    ELSE parts[1] \o <<"_">> \o join(Tail(parts))

fresh_  == <<"f","r","e","s","h","_">>
rotten_ == <<"r","o","t","t","e","n","_">>
Fresh_  == <<"F","r","e","s","h","_">>
Rotten_ == <<"R","o","t","t","e","n","_">>

\* StorageService.normalizeLabel with the second segment lower-cased whole
\* (the capital of its first letter forgotten)
normalizeLabelNoCapital(lbl) ==
    IF lbl = <<>> THEN <<>>
    ELSE
    LET trimmed == trim(lbl)
        formatted ==
            IF startsWith(toLowerCase(trimmed), fresh_)
                THEN Fresh_ \o slice(trimmed, 6)
            ELSE IF startsWith(toLowerCase(trimmed), rotten_)
                THEN Rotten_ \o slice(trimmed, 7)
            ELSE trimmed
        parts == split(formatted)
    IN  IF Len(parts) > 1
        THEN join([parts EXCEPT ![2] = toLowerCase(parts[2])])
        ELSE formatted

\* StorageService.normalizeLabel
normalizeLabel(lbl) ==
    IF lbl = <<>> THEN <<>>                       \* if (!label) return ''
    ELSE
    LET trimmed == trim(lbl)
        formatted ==
            IF startsWith(toLowerCase(trimmed), fresh_)
                THEN Fresh_ \o slice(trimmed, 6)
            ELSE IF startsWith(toLowerCase(trimmed), rotten_)
                THEN Rotten_ \o slice(trimmed, 7)
            ELSE trimmed
        parts == split(formatted)
    IN  IF Len(parts) > 1
        THEN join([parts EXCEPT ![2] =
                      toUpperCase(charAt0(parts[2])) \o toLowerCase(slice(parts[2], 1))])
        ELSE formatted

(***************************************************************************)
(* Numbers: n/d with d > 0, NaN = 0/0, +Infinity = 1/0, -Infinity = -1/0   *)
(***************************************************************************)
Q(n, d) == [n |-> n, d |-> d]
NaN     == Q(0, 0)
PosInf  == Q(1, 0)
NegInf  == Q(-1, 0)
Zero    == Q(0, 1)
One     == Q(1, 1)

IsNaN(a)    == a.d = 0 /\ a.n = 0
IsFinite(a) == a.d > 0                       \* Number.isFinite
Sign(k)     == IF k > 0 THEN 1 ELSE IF k < 0 THEN -1 ELSE 0

\* a < b; false when either is NaN
QLess(a, b) ==
    /\ ~IsNaN(a)
    /\ ~IsNaN(b)
    /\ IF a.d = 0 \/ b.d = 0
       THEN (IF a.d = 0 THEN a.n ELSE 0) < (IF b.d = 0 THEN b.n ELSE 0)
       ELSE a.n * b.d < b.n * a.d
QGreater(a, b) == QLess(b, a)
\* a >= b; false when either is NaN
QGeq(a, b) == ~IsNaN(a) /\ ~IsNaN(b) /\ ~QLess(a, b)
\* a === b on numbers; NaN equals nothing
QEq(a, b) == QGeq(a, b) /\ QGeq(b, a)

QNeg(a) == Q(-a.n, a.d)
QAdd(a, b) ==
    IF IsNaN(a) \/ IsNaN(b) THEN NaN
    ELSE IF a.d = 0 THEN (IF b.d = 0 /\ b.n # a.n THEN NaN ELSE a)
    ELSE IF b.d = 0 THEN b
    ELSE Q(a.n * b.d + b.n * a.d, a.d * b.d)
QSub(a, b) == QAdd(a, QNeg(b))
QMul(a, b) ==
    IF IsNaN(a) \/ IsNaN(b) THEN NaN
    ELSE IF a.d = 0 \/ b.d = 0
         THEN (IF a.n = 0 \/ b.n = 0 THEN NaN ELSE Q(Sign(a.n) * Sign(b.n), 0))
    ELSE Q(a.n * b.n, a.d * b.d)
QDiv(a, b) ==
    IF IsNaN(a) \/ IsNaN(b) THEN NaN
    ELSE IF b.d = 0 THEN (IF a.d = 0 THEN NaN ELSE Zero)
    ELSE IF a.d = 0 THEN Q(a.n * (IF b.n < 0 THEN -1 ELSE 1), 0)
    ELSE IF b.n = 0 THEN Q(Sign(a.n), 0)           \* x/0: NaN when x = 0
    ELSE Q(a.n * b.d * Sign(b.n), a.d * b.n * Sign(b.n))

\* Math.max and Math.min of two numbers: NaN when either is NaN
MathMax(a, b) == IF IsNaN(a) \/ IsNaN(b) THEN NaN ELSE IF QLess(a, b) THEN b ELSE a
MathMin(a, b) == IF IsNaN(a) \/ IsNaN(b) THEN NaN ELSE IF QLess(b, a) THEN b ELSE a

(***************************************************************************)
(* nonMaxSuppression                                                       *)
(***************************************************************************)
\* the closure `iou` of nonMaxSuppression
iou(a, b) ==
    With(MathMax(a.x, b.x), LAMBDA xA :
    With(MathMax(a.y, b.y), LAMBDA yA :
    With(MathMin(QAdd(a.x, a.width), QAdd(b.x, b.width)), LAMBDA xB :
    With(MathMin(QAdd(a.y, a.height), QAdd(b.y, b.height)), LAMBDA yB :
    With(MathMax(Zero, QSub(xB, xA)), LAMBDA interW :
    With(MathMax(Zero, QSub(yB, yA)), LAMBDA interH :
    With(QMul(interW, interH), LAMBDA interArea :
    With(QMul(a.width, a.height), LAMBDA boxAArea :
    With(QMul(b.width, b.height), LAMBDA boxBArea :
    With(QAdd(boxAArea, boxBArea), LAMBDA bothAreas :
        QDiv(interArea, QSub(bothAreas, interArea))))))))))))

\* the insertion that puts an element before those of equal confidence
RECURSIVE insertBeforeEqualConfidence(_, _)
insertBeforeEqualConfidence(sorted, e) ==
    IF sorted = <<>> THEN <<e>>
    ELSE IF ~QGreater(Head(sorted).confidence, e.confidence)
         THEN <<e>> \o sorted
         ELSE <<Head(sorted)>> \o insertBeforeEqualConfidence(Tail(sorted), e)

\* boxes.sort((a, b) => b.confidence - a.confidence): Array.prototype.sort is
\* stable, so this is the stable insertion of each element behind every
\* element of greater or equal confidence
RECURSIVE insertByConfidence(_, _)
insertByConfidence(sorted, e) ==
    IF sorted = <<>> THEN <<e>>
    ELSE IF QLess(Head(sorted).confidence, e.confidence)
         THEN <<e>> \o sorted
         ELSE <<Head(sorted)>> \o insertByConfidence(Tail(sorted), e)

\* the list left as the caller passed it
leftUnsorted(bs) == bs

RECURSIVE sortByConfidence(_)
sortByConfidence(bs) ==
    IF bs = <<>> THEN <<>>
    ELSE insertByConfidence(sortByConfidence(SubSeq(bs, 1, Len(bs) - 1)), bs[Len(bs)])

\* the filter predicate with the comparison turned around
keepsInverted(current, b, thr) == QGreater(iou(current, b), thr)

\* the filter predicate of the loop: (b) => iou(current, b) < threshold
keeps(current, b, thr) == QLess(iou(current, b), thr)

\* boxes.filter((b) => iou(current, b) < threshold)
RECURSIVE filterBoxes(_, _, _)
filterBoxes(bs, current, thr) ==
    IF bs = <<>> THEN <<>>
    ELSE (IF keeps(current, Head(bs), thr) THEN <<Head(bs)>> ELSE <<>>)
         \o filterBoxes(Tail(bs), current, thr)

\* the while loop, run to its end
RECURSIVE nmsLoop(_, _, _)
nmsLoop(bs, sel, thr) ==
    IF bs = <<>> THEN sel
    ELSE nmsLoop(filterBoxes(Tail(bs), Head(bs), thr), Append(sel, Head(bs)), thr)

\* nonMaxSuppression(boxes, threshold), its return value
nonMaxSuppression(bs, thr) ==
    IF Len(bs) = 0 THEN <<>> ELSE nmsLoop(sortByConfidence(bs), <<>>, thr)

(***************************************************************************)
(* JavaScript values of the reference data store                           *)
(*                                                                         *)
(* A value carries its type tag t.  A string is either free text (Str, a   *)
(* TLA+ string) or a label (Label, a sequence of code units).  An object   *)
(* is either a record (Obj, a function from field names to values) or a    *)
(* dataset (Dataset, its entries [key, value] in insertion order, which is *)
(* the order of Object.entries).                                           *)
(***************************************************************************)
Undefined == [t |-> "undefined"]
Null      == [t |-> "null"]
Num(n)    == [t |-> "number", num |-> Q(n, 1)]
NumQ(q)   == [t |-> "number", num |-> q]
Str(s)    == [t |-> "string", text |-> s]
Label(cs) == [t |-> "string", chars |-> cs]
Arr(xs)   == [t |-> "array", items |-> xs]
Obj(f)    == [t |-> "object", v |-> f]
Entry(k, x)  == [key |-> k, value |-> x]
Dataset(es)  == [t |-> "object", e |-> es]
\* a member of Object.prototype: a function, or the prototype object itself
\* (no own enumerable property either way)
Inherited(name) == [t |-> "function", name |-> name]

EmptyRecord == [f \in {} |-> Null]
IsDataset(x) == x.t = "object" /\ "e" \in DOMAIN x
IsRecord(x)  == x.t = "object" /\ "v" \in DOMAIN x
Nullish(x)   == x.t \in {"undefined", "null"}

\* ToBoolean
Truthy(x) ==
    CASE x.t \in {"undefined", "null"} -> FALSE
      [] x.t = "boolean" -> x.bool
      [] x.t = "number" -> ~IsNaN(x.num) /\ x.num.n # 0
      [] x.t = "string" -> IF "chars" \in DOMAIN x THEN x.chars # <<>> ELSE x.text # ""
      [] OTHER -> TRUE

\* a ?? b
Coalesce(a, b) == IF Nullish(a) THEN b ELSE a

\* names every object inherits from Object.prototype
ObjectPrototypeKeys ==
    { <<"c","o","n","s","t","r","u","c","t","o","r">>,
      <<"t","o","S","t","r","i","n","g">>,
      <<"v","a","l","u","e","O","f">>,
      <<"h","a","s","O","w","n","P","r","o","p","e","r","t","y">>,
      <<"_","_","p","r","o","t","o","_","_">> }

Keys(ds) == {ds.e[i].key : i \in 1..Len(ds.e)}
HasOwn(ds, k) == \E i \in 1..Len(ds.e) : ds.e[i].key = k
OwnValue(ds, k) == ds.e[CHOOSE i \in 1..Len(ds.e) : ds.e[i].key = k].value

\* ds[k] on a dataset object: an own property, else an inherited one
Lookup(ds, k) ==
    IF HasOwn(ds, k) THEN OwnValue(ds, k)
    ELSE IF k \in ObjectPrototypeKeys THEN Inherited(k)
    ELSE Undefined

\* x.f on any value: records have fields, nothing else has one of these names
Field(x, f) == IF IsRecord(x) /\ f \in DOMAIN x.v THEN x.v[f] ELSE Undefined

\* the own enumerable properties an object spread {...x} copies
Spread(x) == IF IsRecord(x) THEN x.v ELSE EmptyRecord

\* the spread with a's properties over b's
MergeFirstWins(a, b) ==
    [f \in DOMAIN a \cup DOMAIN b |-> IF f \in DOMAIN a THEN a[f] ELSE b[f]]

\* {...a, ...b}: b's properties over a's
Merge(a, b) ==
    [f \in DOMAIN a \cup DOMAIN b |-> IF f \in DOMAIN b THEN b[f] ELSE a[f]]

(***************************************************************************)
(* JSON.stringify and JSON.parse                                           *)
(***************************************************************************)
FieldOrder ==
    <<"storage", "shelf_life", "tips", "signs_of_spoilage", "status",
      "waste_disposal", "storage_methods", "ripeness_guide", "preparation_tips",
      "source", "method", "duration", "temperature", "humidity",
      "detections", "x", "y", "width", "height", "confidence", "class_id", "label",
      "cropped_path">>

Garbage == [j |-> "garbage"]

RECURSIVE FilterSeq(_, _)
FilterSeq(s, keep) ==
    IF s = <<>> THEN <<>>
    ELSE (IF Head(s) \in keep THEN <<Head(s)>> ELSE <<>>) \o FilterSeq(Tail(s), keep)

\* the text of a value; a property whose value is undefined or a function is
\* left out of an object and written null in an array
RECURSIVE JSONstringify(_)
JSONstringify(x) ==
    CASE x.t \in {"null", "undefined", "function"} -> [j |-> "null"]
      [] x.t = "number" -> IF IsFinite(x.num) THEN [j |-> "number", num |-> x.num]
                           ELSE [j |-> "null"]
      [] x.t = "boolean" -> [j |-> "boolean", bool |-> x.bool]
      [] x.t = "string" -> [j |-> "string", str |-> x]
      [] x.t = "array"  -> [j |-> "array",
                            items |-> [i \in 1..Len(x.items) |-> JSONstringify(x.items[i])]]
      [] IsRecord(x) ->
            LET fs == FilterSeq(FieldOrder,
                        {f \in DOMAIN x.v : x.v[f].t \notin {"undefined", "function"}})
            IN  [j |-> "record",
                 fields |-> [i \in 1..Len(fs) |-> <<fs[i], JSONstringify(x.v[fs[i]])>>]]
      [] IsDataset(x) ->
            [j |-> "dataset",
             entries |-> [i \in 1..Len(x.e) |->
                            <<x.e[i].key, JSONstringify(x.e[i].value)>>]]

\* the value of a text that parses
RECURSIVE JSONparse(_)
JSONparse(text) ==
    CASE text.j = "null"   -> Null
      [] text.j = "number" -> NumQ(text.num)
      [] text.j = "boolean" -> [t |-> "boolean", bool |-> text.bool]
      [] text.j = "string" -> text.str
      [] text.j = "array"  ->
            Arr([i \in 1..Len(text.items) |-> JSONparse(text.items[i])])
      [] text.j = "record" ->
            Obj([f \in {text.fields[i][1] : i \in 1..Len(text.fields)} |->
                    JSONparse(text.fields[CHOOSE i \in 1..Len(text.fields) :
                                              text.fields[i][1] = f][2])])
      [] text.j = "dataset" ->
            Dataset([i \in 1..Len(text.entries) |->
                        Entry(text.entries[i][1], JSONparse(text.entries[i][2]))])

Parses(text) == text.j # "garbage"

(***************************************************************************)
(* The built-in default table (a dash outside Latin-1 is written "-")      *)
(***************************************************************************)
DEFAULT_STORAGE_DATA ==
  Dataset(<<
    Entry(<<"F","r","e","s","h","_","A","p","p","l","e">>, Obj([
        storage |-> Str("Refrigerate in crisper drawer at 32-40°F (0-4°C)"),
        shelf_life |-> Num(42),
        tips |-> Str("Store away from other fruits to prevent ripening. Optimal humidity 90-95%. Can be stored in perforated plastic bags."),
        signs_of_spoilage |-> Str("Soft spots, mold, wrinkled skin, mushy texture"),
        status |-> Str("Fresh"),
        waste_disposal |-> Str("Compost if no mold present"),
        storage_methods |-> Arr(<<Obj([method |-> Str("Refrigerator"), duration |-> Str("4-6 weeks"), temperature |-> Str("32-40°F (0-4°C)"), humidity |-> Str("90-95%")]),
            Obj([method |-> Str("Cold Storage/Cellar"), duration |-> Str("2-3 months"), temperature |-> Str("30-32°F (-1-0°C)"), humidity |-> Str("90%")]),
            Obj([method |-> Str("Room Temperature"), duration |-> Str("5-7 days"), temperature |-> Str("60-70°F (15-21°C)"), humidity |-> Str("n/a")])>>),
        source |-> Str("USDA Food Storage Guidelines & University of Maine Cooperative Extension")])),
    Entry(<<"F","r","e","s","h","_","B","a","n","a","n","a">>, Obj([
        storage |-> Str("Store at room temperature away from direct sunlight; refrigerate only when fully ripe"),
        shelf_life |-> Num(5),
        tips |-> Str("Bananas ripen faster when stored near other fruits due to ethylene gas. Refrigeration darkens the peel but keeps the inside firm longer."),
        signs_of_spoilage |-> Str("Large brown/black patches, leaking liquid, fermented smell, mushy texture"),
        status |-> Str("Fresh"),
        waste_disposal |-> Str("Compost peels; discard spoiled fruit in sealed bag"),
        storage_methods |-> Arr(<<Obj([method |-> Str("Room Temperature"), duration |-> Str("2-5 days (unripe), 2-3 days (ripe)"), temperature |-> Str("60-70°F (15-21°C)"), humidity |-> Str("n/a")]),
            Obj([method |-> Str("Refrigerator"), duration |-> Str("5-7 days (ripe only)"), temperature |-> Str("32-40°F (0-4°C)"), humidity |-> Str("n/a")]),
            Obj([method |-> Str("Freezer"), duration |-> Str("2-3 months"), temperature |-> Str("0°F (-18°C)"), humidity |-> Str("n/a")])>>),
        source |-> Str("USDA & University of Florida IFAS Extension")])),
    Entry(<<"F","r","e","s","h","_","O","r","a","n","g","e">>, Obj([
        storage |-> Str("Refrigerate for longest freshness or keep at room temperature if consuming soon"),
        shelf_life |-> Num(21),
        tips |-> Str("Avoid storing in sealed plastic bags; allow airflow. Keep away from moisture to prevent mold."),
        signs_of_spoilage |-> Str("Soft spots, sour or fermented smell, mold (white/green/blue), leaking juice"),
        status |-> Str("Fresh"),
        waste_disposal |-> Str("Compost peels if clean; discard moldy oranges in sealed bag"),
        storage_methods |-> Arr(<<Obj([method |-> Str("Refrigerator"), duration |-> Str("2-3 weeks"), temperature |-> Str("32-40°F (0-4°C)"), humidity |-> Str("85-95%")]),
            Obj([method |-> Str("Room Temperature"), duration |-> Str("5-7 days"), temperature |-> Str("60-70°F (15-21°C)"), humidity |-> Str("n/a")])>>),
        source |-> Str("USDA & University of California Agriculture and Natural Resources")])),
    Entry(<<"F","r","e","s","h","_","M","a","n","g","g","o">>, Obj([
        storage |-> Str("Store at room temperature until ripe; refrigerate once ripe to extend freshness"),
        shelf_life |-> Num(7),
        tips |-> Str("Keep unripe mangoes at room temperature. Once ripe, refrigerate to slow softening. Avoid stacking to prevent bruising."),
        signs_of_spoilage |-> Str("Fermented or sour smell, excessive softness, leaking juice, dark moldy spots"),
        status |-> Str("Fresh"),
        waste_disposal |-> Str("Compost peels and seeds if no mold; discard moldy mangoes in sealed bag"),
        storage_methods |-> Arr(<<Obj([method |-> Str("Room Temperature (Unripe)"), duration |-> Str("2-4 days"), temperature |-> Str("60-70°F (15-21°C)"), humidity |-> Str("n/a")]),
            Obj([method |-> Str("Refrigerator (Ripe)"), duration |-> Str("3-5 days"), temperature |-> Str("32-40°F (0-4°C)"), humidity |-> Str("n/a")]),
            Obj([method |-> Str("Freezer (Cut Mango)"), duration |-> Str("10-12 months"), temperature |-> Str("0°F (-18°C)"), humidity |-> Str("n/a")])>>),
        source |-> Str("USDA & National Mango Board")])),
    Entry(<<"F","r","e","s","h","_","S","t","r","a","w","b","e","r","r","y">>, Obj([
        storage |-> Str("Refrigerate immediately; keep dry and store unwashed in a breathable container."),
        shelf_life |-> Num(3),
        tips |-> Str("Do not wash until ready to eat. Remove any spoiled berries immediately to prevent spread of mold."),
        signs_of_spoilage |-> Str("White/green mold, soft or mushy texture, leaking juice, fermented or sour smell"),
        status |-> Str("Fresh"),
        waste_disposal |-> Str("Compost if free of mold; if moldy, seal in bag and dispose in trash."),
        storage_methods |-> Arr(<<Obj([method |-> Str("Refrigerator"), duration |-> Str("2-3 days"), temperature |-> Str("32-36°F (0-2°C)"), humidity |-> Str("High humidity recommended")]),
            Obj([method |-> Str("Freezer (Whole or Sliced)"), duration |-> Str("8-12 months"), temperature |-> Str("0°F (-18°C)"), humidity |-> Str("n/a")]),
            Obj([method |-> Str("Paper-Towel Container Method"), duration |-> Str("4-7 days"), temperature |-> Str("Refrigerated"), humidity |-> Str("Moderate, moisture-controlled")])>>),
        source |-> Str("USDA & UC Agriculture and Natural Resources")])),
    Entry(<<"F","r","e","s","h","_","P","o","t","a","t","o">>, Obj([
        storage |-> Str("Store in a cool, dark, well-ventilated place; avoid refrigeration to prevent starch-to-sugar conversion."),
        shelf_life |-> Num(30),
        tips |-> Str("Keep potatoes away from onions to prevent faster spoilage. Remove sprouting potatoes immediately to slow deterioration."),
        signs_of_spoilage |-> Str("Soft or mushy texture, large green patches, mold growth, foul or earthy rotten odor, excessive sprouting"),
        status |-> Str("Fresh"),
        waste_disposal |-> Str("Compost if not moldy; otherwise seal in a bag and dispose in regular trash."),
        storage_methods |-> Arr(<<Obj([method |-> Str("Pantry (Cool, Dark Area)"), duration |-> Str("3-6 weeks"), temperature |-> Str("45-55°F (7-13°C)"), humidity |-> Str("High humidity recommended")]),
            Obj([method |-> Str("Refrigerator (Not Recommended)"), duration |-> Str("Not advised"), temperature |-> Str("32-40°F (0-4°C)"), humidity |-> Str("n/a")]),
            Obj([method |-> Str("Root Cellar"), duration |-> Str("2-3 months"), temperature |-> Str("40-50°F (4-10°C)"), humidity |-> Str("90-95%")])>>),
        source |-> Str("USDA & Produce Storage Guidelines")])),
    Entry(<<"F","r","e","s","h","_","C","a","r","r","o","t">>, Obj([
        storage |-> Str("Refrigerate in the crisper drawer at 32-40°F (0-4°C)"),
        shelf_life |-> Num(30),
        tips |-> Str("Remove carrot tops to prevent moisture loss. Store in perforated plastic bags for optimal humidity."),
        signs_of_spoilage |-> Str("Limp texture, white dryness on surface, sliminess, mold patches, foul odor"),
        status |-> Str("Fresh"),
        waste_disposal |-> Str("Compost if no mold; discard moldy or slimy carrots in sealed bag"),
        storage_methods |-> Arr(<<Obj([method |-> Str("Refrigerator"), duration |-> Str("3-4 weeks"), temperature |-> Str("32-40°F (0-4°C)"), humidity |-> Str("90-95%")]),
            Obj([method |-> Str("Root Cellar"), duration |-> Str("2-4 months"), temperature |-> Str("32-40°F (0-4°C)"), humidity |-> Str("95%")]),
            Obj([method |-> Str("Room Temperature"), duration |-> Str("3-5 days"), temperature |-> Str("60-70°F (15-21°C)"), humidity |-> Str("n/a")])>>),
        source |-> Str("USDA & University of Nebraska-Lincoln Extension")])),
    Entry(<<"F","r","e","s","h","_","P","e","p","p","e","r">>, Obj([
        storage |-> Str("Refrigerate in the crisper drawer; keep dry and unwashed until use"),
        shelf_life |-> Num(10),
        tips |-> Str("Store in a breathable bag. Bell peppers last longer than thin-walled peppers. Moisture speeds spoilage."),
        signs_of_spoilage |-> Str("Wrinkled skin, soft or sunken spots, mold near stem, sour odor"),
        status |-> Str("Fresh"),
        waste_disposal |-> Str("Compost if not moldy; discard moldy peppers in sealed bag"),
        storage_methods |-> Arr(<<Obj([method |-> Str("Refrigerator"), duration |-> Str("1-2 weeks"), temperature |-> Str("45-50°F (7-10°C)"), humidity |-> Str("90-95%")]),
            Obj([method |-> Str("Room Temperature"), duration |-> Str("2-3 days"), temperature |-> Str("60-70°F (15-21°C)"), humidity |-> Str("n/a")]),
            Obj([method |-> Str("Freezer (Chopped)"), duration |-> Str("10-12 months"), temperature |-> Str("0°F (-18°C)"), humidity |-> Str("n/a")])>>),
        source |-> Str("USDA & University of Minnesota Extension")])),
    Entry(<<"F","r","e","s","h","_","C","u","c","u","m","b","e","r">>, Obj([
        storage |-> Str("Refrigerate in the crisper drawer; keep dry to prevent mold"),
        shelf_life |-> Num(7),
        tips |-> Str("Do not store near ethylene-producing fruits (apples, bananas). Wrap in paper towel and place in a loose plastic bag for longest freshness."),
        signs_of_spoilage |-> Str("Soft spots, shriveling, sliminess, leaking moisture, mold growth"),
        status |-> Str("Fresh"),
        waste_disposal |-> Str("Compost if not moldy; discard moldy or slimy cucumbers in sealed bag"),
        storage_methods |-> Arr(<<Obj([method |-> Str("Refrigerator"), duration |-> Str("5-7 days"), temperature |-> Str("45-50°F (7-10°C)"), humidity |-> Str("90-95%")]),
            Obj([method |-> Str("Room Temperature"), duration |-> Str("1-2 days"), temperature |-> Str("60-70°F (15-21°C)"), humidity |-> Str("n/a")])>>),
        source |-> Str("USDA & Virginia Cooperative Extension")])),
    Entry(<<"F","r","e","s","h","_","O","k","r","a">>, Obj([
        storage |-> Str("Refrigerate in a breathable bag; avoid moisture to prevent sliminess"),
        shelf_life |-> Num(4),
        tips |-> Str("Keep okra dry-moisture speeds spoilage. Do not wash before storing. Use within a few days for best texture."),
        signs_of_spoilage |-> Str("Dark spots, limp or soft pods, slimy texture, mold on stems"),
        status |-> Str("Fresh"),
        waste_disposal |-> Str("Compost if no mold; discard moldy or slimy okra in sealed bag"),
        storage_methods |-> Arr(<<Obj([method |-> Str("Refrigerator"), duration |-> Str("2-4 days"), temperature |-> Str("45-50°F (7-10°C)"), humidity |-> Str("90-95%")]),
            Obj([method |-> Str("Room Temperature"), duration |-> Str("1 day max"), temperature |-> Str("60-70°F (15-21°C)"), humidity |-> Str("n/a")]),
            Obj([method |-> Str("Freezer (Blanched)"), duration |-> Str("8-12 months"), temperature |-> Str("0°F (-18°C)"), humidity |-> Str("n/a")])>>),
        source |-> Str("USDA & University of Georgia Extension (National Center for Home Food Preservation)")])),
    Entry(<<"F","r","e","s","h","_","B","e","e","f">>, Obj([
        storage |-> Str("Refrigerate at 32-40°F (0-4°C) or freeze immediately"),
        shelf_life |-> Num(5),
        tips |-> Str("Store on the lowest refrigerator shelf to avoid cross-contamination. Keep in original packaging or rewrap tightly."),
        signs_of_spoilage |-> Str("Gray-brown color, slimy texture, sticky surface, sour or ammonia-like odor"),
        status |-> Str("Fresh"),
        waste_disposal |-> Str("Seal and discard immediately; do not compost raw meat"),
        storage_methods |-> Arr(<<Obj([method |-> Str("Refrigerator (Ground Beef)"), duration |-> Str("1-2 days"), temperature |-> Str("32-40°F (0-4°C)"), humidity |-> Str("n/a")]),
            Obj([method |-> Str("Refrigerator (Steaks/Roasts)"), duration |-> Str("3-5 days"), temperature |-> Str("32-40°F (0-4°C)"), humidity |-> Str("n/a")]),
            Obj([method |-> Str("Freezer (Ground Beef)"), duration |-> Str("3-4 months"), temperature |-> Str("0°F (-18°C)"), humidity |-> Str("n/a")]),
            Obj([method |-> Str("Freezer (Steaks/Roasts)"), duration |-> Str("6-12 months"), temperature |-> Str("0°F (-18°C)"), humidity |-> Str("n/a")])>>),
        source |-> Str("USDA Food Safety and Inspection Service (FSIS)")])),
    Entry(<<"F","r","e","s","h","_","C","h","i","c","k","e","n">>, Obj([
        storage |-> Str("Refrigerate at 32-40°F (0-4°C) or freeze immediately after purchase"),
        shelf_life |-> Num(2),
        tips |-> Str("Keep chicken in its original packaging and place it on the bottom shelf to prevent cross-contamination. Handle with clean hands and sanitize surfaces."),
        signs_of_spoilage |-> Str("Slimy texture, sour or sulfur-like odor, grayish color, sticky surface"),
        status |-> Str("Fresh"),
        waste_disposal |-> Str("Seal raw chicken waste in a bag and discard immediately; never compost raw poultry"),
        storage_methods |-> Arr(<<Obj([method |-> Str("Refrigerator (Whole Chicken)"), duration |-> Str("1-2 days"), temperature |-> Str("32-40°F (0-4°C)"), humidity |-> Str("n/a")]),
            Obj([method |-> Str("Refrigerator (Cut Chicken)"), duration |-> Str("1-2 days"), temperature |-> Str("32-40°F (0-4°C)"), humidity |-> Str("n/a")]),
            Obj([method |-> Str("Freezer (Whole Chicken)"), duration |-> Str("12 months"), temperature |-> Str("0°F (-18°C)"), humidity |-> Str("n/a")]),
            Obj([method |-> Str("Freezer (Chicken Parts)"), duration |-> Str("9 months"), temperature |-> Str("0°F (-18°C)"), humidity |-> Str("n/a")])>>),
        source |-> Str("USDA Food Safety and Inspection Service (FSIS)")])),
    Entry(<<"F","r","e","s","h","_","P","o","r","k">>, Obj([
        storage |-> Str("Refrigerate immediately; keep in original packaging or airtight container"),
        shelf_life |-> Num(3),
        tips |-> Str("Keep raw pork on the lowest refrigerator shelf to avoid cross-contamination. Freeze if not using within 3 days."),
        signs_of_spoilage |-> Str("Slimy surface, gray/green discoloration, sour or ammonia-like odor"),
        status |-> Str("Fresh"),
        waste_disposal |-> Str("Seal tightly and dispose in trash; avoid composting raw meat"),
        storage_methods |-> Arr(<<Obj([method |-> Str("Refrigerator"), duration |-> Str("2-3 days"), temperature |-> Str("32-40°F (0-4°C)"), humidity |-> Str("n/a")]),
            Obj([method |-> Str("Freezer"), duration |-> Str("4-12 months"), temperature |-> Str("0°F (-18°C)"), humidity |-> Str("n/a")]),
            Obj([method |-> Str("Vacuum-Sealed Freezer"), duration |-> Str("1-2 years"), temperature |-> Str("0°F (-18°C)"), humidity |-> Str("n/a")])>>),
        source |-> Str("USDA Food Safety & Inspection Service")])),
    Entry(<<"R","o","t","t","e","n","_","A","p","p","l","e">>, Obj([
        storage |-> Str("Do not store; discard immediately."),
        shelf_life |-> Num(0),
        tips |-> Str("Rotten apples release ethylene gas, accelerating spoilage of nearby produce. Keep away from other food."),
        signs_of_spoilage |-> Str("Brown/black soft spots, fermented smell, leaking juices, mold growth, wrinkled collapsed skin"),
        status |-> Str("Rotten"),
        waste_disposal |-> Str("Compost only if no mold is present; if moldy, seal in a bag and dispose in trash."),
        storage_methods |-> Arr(<<>>),
        source |-> Str("USDA & University of Maine Cooperative Extension")])),
    Entry(<<"R","o","t","t","e","n","_","B","a","n","a","n","a">>, Obj([
        storage |-> Str("Do not store; discard immediately."),
        shelf_life |-> Num(0),
        tips |-> Str("Rotten bananas attract fruit flies and can contaminate nearby produce. Handle carefully to avoid leaks."),
        signs_of_spoilage |-> Str("Black mushy peel, leaking liquid, fermented or alcohol-like smell, visible mold, slimy texture"),
        status |-> Str("Rotten"),
        waste_disposal |-> Str("Do not compost moldy bananas. Seal in a plastic bag and dispose in trash."),
        storage_methods |-> Arr(<<>>),
        source |-> Str("USDA & University of California Agriculture and Natural Resources")])),
    Entry(<<"R","o","t","t","e","n","_","O","r","a","n","g","e">>, Obj([
        storage |-> Str("Do not store; discard immediately."),
        shelf_life |-> Num(0),
        tips |-> Str("Citrus fruits with mold can spread spores quickly. Even small mold spots indicate internal spoilage."),
        signs_of_spoilage |-> Str("Soft or sunken areas, white/green/blue mold, fermented smell, leaking juice, bitter or off odor"),
        status |-> Str("Rotten"),
        waste_disposal |-> Str("Do not compost moldy citrus; seal in a plastic bag and discard in trash."),
        storage_methods |-> Arr(<<>>),
        source |-> Str("USDA & Clemson Cooperative Extension")])),
    Entry(<<"R","o","t","t","e","n","_","M","a","n","g","g","o">>, Obj([
        storage |-> Str("Do not store; discard immediately."),
        shelf_life |-> Num(0),
        tips |-> Str("Mangoes spoil quickly once bruised. Rotten mangoes release liquid and attract insects."),
        signs_of_spoilage |-> Str("Fermented or alcoholic smell, leaking juice, brown/black soft areas, mold growth, wrinkled skin"),
        status |-> Str("Rotten"),
        waste_disposal |-> Str("Compost only if there is no mold. If moldy, seal in a bag and dispose in trash."),
        storage_methods |-> Arr(<<>>),
        source |-> Str("USDA & National Center for Home Food Preservation")])),
    Entry(<<"R","o","t","t","e","n","_","S","t","r","a","w","b","e","r","r","y">>, Obj([
        storage |-> Str("Do not store; discard immediately."),
        shelf_life |-> Num(0),
        tips |-> Str("Strawberries spoil extremely fast. One moldy berry can spread contamination throughout the entire container."),
        signs_of_spoilage |-> Str("White or green mold, mushy or collapsing texture, dark wet spots, fermented or sour odor"),
        status |-> Str("Rotten"),
        waste_disposal |-> Str("Do NOT compost moldy berries. Seal in a bag and dispose in household trash."),
        storage_methods |-> Arr(<<>>),
        source |-> Str("USDA & UC Agriculture and Natural Resources")])),
    Entry(<<"R","o","t","t","e","n","_","C","a","r","r","o","t">>, Obj([
        storage |-> Str("Do not store; discard immediately."),
        shelf_life |-> Num(0),
        tips |-> Str("Spoiled carrots can develop mold and a slimy texture. Separate from other vegetables to avoid spreading contamination."),
        signs_of_spoilage |-> Str("Slimy surface, mushy texture, dark or black spots, white mold growth, sour smell"),
        status |-> Str("Rotten"),
        waste_disposal |-> Str("Compost only if there is **no mold present**. If moldy, seal in a bag and place in trash."),
        storage_methods |-> Arr(<<>>),
        source |-> Str("USDA & University of Minnesota Extension")])),
    Entry(<<"R","o","t","t","e","n","_","C","u","c","u","m","b","e","r">>, Obj([
        storage |-> Str("Do not store; discard immediately."),
        shelf_life |-> Num(0),
        tips |-> Str("Cucumbers spoil quickly once moisture builds up. Rot spreads fast to nearby vegetables."),
        signs_of_spoilage |-> Str("Soft, watery texture; leaking liquid; yellowing; mold patches; sour smell"),
        status |-> Str("Rotten"),
        waste_disposal |-> Str("Compost only if there is no mold present. If moldy or leaking, seal in a bag and place in trash."),
        storage_methods |-> Arr(<<>>),
        source |-> Str("USDA & University of Wisconsin Horticulture")])),
    Entry(<<"R","o","t","t","e","n","_","O","k","r","a">>, Obj([
        storage |-> Str("Do not store; discard immediately."),
        shelf_life |-> Num(0),
        tips |-> Str("Okra becomes slimy very quickly once it starts spoiling. Keep spoiled okra away from fresh produce."),
        signs_of_spoilage |-> Str("Slimy coating, dark brown/black spots, mushy texture, sour or unpleasant odor, mold patches"),
        status |-> Str("Rotten"),
        waste_disposal |-> Str("Compost only if there is no mold present. If moldy, seal in a bag and place in trash."),
        storage_methods |-> Arr(<<>>),
        source |-> Str("USDA & University of Florida IFAS Extension")])),
    Entry(<<"R","o","t","t","e","n","_","P","e","p","p","e","r">>, Obj([
        storage |-> Str("Do not store; discard immediately."),
        shelf_life |-> Num(0),
        tips |-> Str("Peppers deteriorate quickly once soft spots appear. Mold spreads fast inside hollow vegetables."),
        signs_of_spoilage |-> Str("Wrinkled or collapsing skin, soft watery areas, black spots, mold growth, sour or rotten odor"),
        status |-> Str("Rotten"),
        waste_disposal |-> Str("Compost only if there is no mold. If moldy, seal in a bag and discard in trash."),
        storage_methods |-> Arr(<<>>),
        source |-> Str("USDA & Penn State Extension")])),
    Entry(<<"R","o","t","t","e","n","_","P","o","t","a","t","o">>, Obj([
        storage |-> Str("Do not store; discard immediately."),
        shelf_life |-> Num(0),
        tips |-> Str("Rotten potatoes release toxic solanine gas, which can cause headaches and nausea in enclosed spaces."),
        signs_of_spoilage |-> Str("Soft/mushy texture, foul sulfur-like odor, green coloration, sprouting with decay, black mold"),
        status |-> Str("Rotten"),
        waste_disposal |-> Str("Seal in a bag and discard in trash immediately. Do NOT compost rotten or moldy potatoes."),
        storage_methods |-> Arr(<<>>),
        source |-> Str("USDA & University of Idaho Extension")])),
    Entry(<<"R","o","t","t","e","n","_","B","e","e","f">>, Obj([
        storage |-> Str("Do not store; discard immediately."),
        shelf_life |-> Num(0),
        tips |-> Str("Rotten beef can harbor dangerous bacteria like Salmonella or E. coli. Avoid touching other foods with contaminated packaging."),
        signs_of_spoilage |-> Str("Brown/green discoloration, sticky or slimy surface, strong sour or ammonia-like odor, mold patches"),
        status |-> Str("Rotten"),
        waste_disposal |-> Str("Double-bag before throwing into trash to prevent leaks and odors. Do not compost raw or spoiled meat."),
        storage_methods |-> Arr(<<>>),
        source |-> Str("USDA Food Safety & Inspection Service")])),
    Entry(<<"R","o","t","t","e","n","_","C","h","i","c","k","e","n">>, Obj([
        storage |-> Str("Do not store; discard immediately to prevent bacterial contamination."),
        shelf_life |-> Num(0),
        tips |-> Str("Raw chicken spoils rapidly. Even slight off-odors or sliminess indicate bacterial growth such as Salmonella or Campylobacter."),
        signs_of_spoilage |-> Str("Sour or sulfur-like odor, sticky or slimy surface, gray/green discoloration, tacky texture"),
        status |-> Str("Rotten"),
        waste_disposal |-> Str("Seal securely in bags and dispose in an outdoor trash bin. Never compost rotten meat."),
        storage_methods |-> Arr(<<>>),
        source |-> Str("USDA Food Safety & Inspection Service")])),
    Entry(<<"R","o","t","t","e","n","_","P","o","r","k">>, Obj([
        storage |-> Str("Do not store; discard immediately to prevent bacterial contamination."),
        shelf_life |-> Num(0),
        tips |-> Str("Rotten pork can harbor harmful bacteria like Salmonella, Listeria, and E. coli. Even slight odor changes indicate spoilage."),
        signs_of_spoilage |-> Str("Sour or ammonia-like smell, sticky or slimy texture, gray/green discoloration, tacky surface"),
        status |-> Str("Rotten"),
        waste_disposal |-> Str("Seal tightly in double bags and dispose in an outdoor trash bin. Never compost rotten meat."),
        storage_methods |-> Arr(<<>>),
        source |-> Str("USDA Food Safety & Inspection Service")]))>>)

(***************************************************************************)
(* StorageService                                                          *)
(***************************************************************************)
Return(x) == [kind |-> "return", value |-> x]
Throw(e)  == [kind |-> "throw", error |-> e]

\* the override file: absent, present but not readable, or present with a text
Absent      == [state |-> "absent"]
Unreadable  == [state |-> "unreadable"]
Present(tx) == [state |-> "present", text |-> tx]

\* loadStorageData with the parse failure answered by an empty dataset
loadStorageDataEmptyOnFailure(f, dflt, io) ==
    IF f.state # "absent"
    THEN IF f.state = "unreadable" \/ io = "read fails" \/ ~Parses(f.text)
         THEN [data |-> Dataset(<<>>), file |-> f]
         ELSE [data |-> JSONparse(f.text), file |-> f]
    ELSE IF io \in {"mkdir fails", "write fails"}
         THEN [data |-> dflt, file |-> f]
         ELSE [data |-> dflt, file |-> Present(JSONstringify(dflt))]

\* StorageService.loadStorageData: the dataset it returns and the file it
\* leaves.  f is the override file, io
\* the outcome of the file system calls.
loadStorageData(f, dflt, io) ==
    IF f.state # "absent"                             \* fs.existsSync
    THEN IF f.state = "unreadable" \/ io = "read fails" \/ ~Parses(f.text)
         THEN [data |-> dflt, file |-> f]             \* catch (err)
         ELSE [data |-> JSONparse(f.text), file |-> f]
    ELSE IF io \in {"mkdir fails", "write fails"}
         THEN [data |-> dflt, file |-> f]             \* catch (err)
         ELSE [data |-> dflt, file |-> Present(JSONstringify(dflt))]

\* the for loop over Object.entries(this.storageData): the value of the first
\* key that equals `normalized` without regard to case, else null
\* (lowered is normalized.toLowerCase())
RECURSIVE scanLowered(_, _)
scanLowered(es, lowered) ==
    IF es = <<>> THEN Null
    ELSE IF toLowerCase(Head(es).key) = lowered
         THEN Head(es).value
         ELSE scanLowered(Tail(es), lowered)
scanEntries(es, normalized) == scanLowered(es, toLowerCase(normalized))

\* the object literal returned for an entry that was found
mergedRecord(entry, defaultEntry) ==
    LET spread == Merge(Spread(defaultEntry), Spread(entry))
        extra  ==
            [storage_methods |->
                Coalesce(Coalesce(Field(entry, "storage_methods"),
                                  Field(defaultEntry, "storage_methods")), Arr(<<>>)),
             ripeness_guide |->
                Coalesce(Coalesce(Field(entry, "ripeness_guide"),
                                  Field(defaultEntry, "ripeness_guide")), Obj(EmptyRecord)),
             preparation_tips |->
                Coalesce(Coalesce(Field(entry, "preparation_tips"),
                                  Field(defaultEntry, "preparation_tips")), Obj(EmptyRecord)),
             source |->
                Coalesce(Coalesce(Field(entry, "source"),
                                  Field(defaultEntry, "source")), Str("Unknown"))]
    IN  Obj(Merge(spread, extra))

\* StorageService.getStorageData(itemName) on the active dataset sd and the
\* default table dflt
getStorageData(sd, dflt, itemName) ==
    IF Nullish(itemName) THEN Return(sd)
    ELSE IF ~Truthy(itemName) \/ itemName.t # "string" THEN Return(Null)
    ELSE
    LET normalized == normalizeLabel(itemName.chars)
    IN  IF Nullish(sd) THEN Throw("TypeError")    \* this.storageData[normalized]
        ELSE
        LET direct == Lookup(sd, normalized)
            entry  == IF Truthy(direct) THEN direct ELSE scanEntries(sd.e, normalized)
        IN  IF Truthy(entry)
            THEN LET found == Lookup(dflt, normalized)
                     defaultEntry == IF Truthy(found) THEN found ELSE Obj(EmptyRecord)
                 IN  Return(mergedRecord(entry, defaultEntry))
            ELSE Return(Null)

\* what one call of getStorageData leaves in this.storageData when it also
\* keeps the record it built under the normalized key
storageDataAfterCachingLookup(sd, dflt, itemName) ==
    LET c == getStorageData(sd, dflt, itemName)
    IN  IF c.kind = "return" /\ IsRecord(c.value) /\ IsDataset(sd)
           /\ normalizeLabel(itemName.chars) \notin Keys(sd)
        THEN Dataset(Append(sd.e, Entry(normalizeLabel(itemName.chars), c.value)))
        ELSE sd

\* what one call of getStorageData leaves in this.storageData: the method
\* reads the dataset and assigns nothing
storageDataAfterLookup(sd, dflt, itemName) == sd

(***************************************************************************)
(* Inputs of the reference data store                                      *)
(***************************************************************************)
K_Fresh_Apple   == <<"F","r","e","s","h","_","A","p","p","l","e">>
K_Rotten_Apple  == <<"R","o","t","t","e","n","_","A","p","p","l","e">>
K_fresh_banana  == <<"f","r","e","s","h","_","b","a","n","a","n","a">>
K_Fresh_Banana  == <<"F","r","e","s","h","_","B","a","n","a","n","a">>
K_Fresh_Kiwi    == <<"F","r","e","s","h","_","K","i","w","i">>
K_FRESH_KIWI    == <<"F","R","E","S","H","_","K","I","W","I">>
K_constructor   == <<"c","o","n","s","t","r","u","c","t","o","r">>
K_proto         == <<"_","_","p","r","o","t","o","_","_">>

\* labels asked of the store
LookupLabels ==
    { K_Fresh_Apple, K_Rotten_Apple, K_fresh_banana, K_Fresh_Kiwi, K_FRESH_KIWI,
      <<" ","f","r","e","s","h","_","A","P","P","L","E"," ">>,
      <<"F","r","e","s","h","_","A","p","p","l","e","s">>,
      <<"D","u","r","i","a","n">>,
      <<" ">>,
      K_constructor, K_proto }

\* override records: storage and status always given, each of the other three
\* fields given, left out, or null
OverrideFields == {"shelf_life", "source", "storage_methods"}
OverrideValue(f) ==
    CASE f = "shelf_life"      -> Num(10)
      [] f = "source"          -> Str("Local override")
      [] f = "storage_methods" -> Arr(<<Obj([method |-> Str("Pantry")])>>)
      [] f = "storage"         -> Str("Keep cool")
      [] f = "status"          -> Str("Fresh")
OverrideRecord(choice) ==
    Obj([f \in {"storage", "status"} \cup {g \in OverrideFields : choice[g] # "absent"} |->
            IF f \in OverrideFields /\ choice[f] = "null" THEN Null ELSE OverrideValue(f)])
OverrideRecords ==
    {OverrideRecord(c) : c \in [OverrideFields -> {"own", "absent", "null"}]}
OverrideDatasets ==
    {Dataset(<<Entry(k, r)>>) :
        k \in {K_Fresh_Apple, K_fresh_banana, K_Fresh_Kiwi}, r \in OverrideRecords}
    \cup
    { Dataset(<<Entry(K_FRESH_KIWI, OverrideRecord([f \in OverrideFields |-> "absent"])),
                Entry(K_Fresh_Kiwi, OverrideRecord([f \in OverrideFields |-> "own"]))>>),
      Dataset(<<Entry(K_Fresh_Apple, Null)>>),
      Dataset(<<>>) }

StoreFileInputs ==
    {Absent, Unreadable, Present(Garbage), Present(JSONstringify(Null)),
     Present(JSONstringify(DEFAULT_STORAGE_DATA))}
    \cup {Present(JSONstringify(ds)) : ds \in OverrideDatasets}

IoOutcomes == {"ok", "read fails", "mkdir fails", "write fails"}

\* a response carries, as ghosts, the reply of the inference service that it
\* answers and how the unlinkSync of processImage ended; NoOutcome and "none"
\* where there is no such reply
NoOutcome == [kind |-> "none"]
NoReply == [route |-> "none", item |-> <<>>, status |-> 0, body |-> Undefined,
            call |-> Return(Undefined), outcome |-> NoOutcome, unlink |-> "none"]
NoLoad  == [before |-> Absent, io |-> "ok", created |-> FALSE]

StoreIdle ==
    /\ file = Absent /\ proc = "down" /\ storageData = Undefined
    /\ defaults = DEFAULT_STORAGE_DATA /\ reply = NoReply /\ loadLog = NoLoad

(***************************************************************************)
(* Bounds and input sets                                                   *)
(***************************************************************************)
MaxPieces == 4     \* a raw label is made of at most this many pieces
MaxBoxes  == 3     \* detections handed to one nonMaxSuppression call

LabelPieces ==
    { <<"f","r","e","s","h">>, <<"F","r","e","s","h">>, <<"R","O","T","T","E","N">>,
      <<"_">>, <<" ">>, <<"a","p","p","l","e">>, <<"A","P","P","L","E">>, <<SharpS>> }

LabelInputs == {Flatten(ps) : ps \in SeqsUpTo(LabelPieces, MaxPieces)}

\* boxes (x, y, width, height): overlapping pairs with IoU 2/5 and 1/2, a
\* disjoint pair, two boxes without area and one with a NaN coordinate
Box(x, y, w, h) == [x |-> x, y |-> y, width |-> w, height |-> h]
BoxInputs ==
    { Box(Q(0,1), Q(0,1), Q(4,1), Q(1,1)),
      Box(Q(2,1), Q(0,1), Q(3,1), Q(1,1)),
      Box(Q(0,1), Q(0,1), Q(2,1), Q(1,1)),
      Box(Q(5,1), Q(5,1), Q(0,1), Q(0,1)),
      Box(Q(6,1), Q(6,1), Q(0,1), Q(1,1)),
      Box(NaN,    Q(0,1), Q(1,1), Q(1,1)) }
ConfidenceInputs == { Q(9,10), Q(8,10) }
ThresholdInputs  == { Q(0,1), Q(2,5), Q(1,2), Q(1,1) }

\* a detection object: its identity (its index in the caller's list), its
\* box and its confidence
Detection(id, b, c) ==
    [id |-> id, x |-> b.x, y |-> b.y, width |-> b.width, height |-> b.height,
     confidence |-> c]
DetectionLists ==
    { [i \in 1..Len(s) |-> Detection(i, s[i][1], s[i][2])] :
          s \in SeqsUpTo(BoxInputs \X ConfidenceInputs, MaxBoxes) }

NoRound == [current |-> <<>>, before |-> <<>>, after |-> <<>>]

NormIdle ==
    /\ normPc = "idle" /\ label = <<>> /\ normOnce = <<>> /\ normTwice = <<>>
NmsIdle ==
    /\ nmsPc = "idle" /\ nmsInput = <<>> /\ callerBoxes = <<>> /\ boxes = <<>>
    /\ selected = <<>> /\ threshold = Zero /\ boxesIsCallers = FALSE
    /\ lastRound = NoRound

(***************************************************************************)
(* JavaScript conversions and operators on values                          *)
(***************************************************************************)
Bool(b) == [t |-> "boolean", bool |-> b]

Digits   == <<"0","1","2","3","4","5","6","7","8","9">>
DigitSet == Range(Digits)
DigitValue == [c \in DigitSet |-> (CHOOSE i \in 1..10 : Digits[i] = c) - 1]

RECURSIVE Pow10(_)
Pow10(k) == IF k = 0 THEN 1 ELSE 10 * Pow10(k - 1)

\* the longest prefix of s made of decimal digits, and the value of digits
RECURSIVE digitPrefix(_)
digitPrefix(s) ==
    IF s # <<>> /\ Head(s) \in DigitSet
    THEN <<Head(s)>> \o digitPrefix(Tail(s)) ELSE <<>>

RECURSIVE digitsValue(_)
digitsValue(ds) ==
    IF ds = <<>> THEN 0
    ELSE digitsValue(SubSeq(ds, 1, Len(ds) - 1)) * 10 + DigitValue[ds[Len(ds)]]

\* the decimal digits of a natural number (String(n))
RECURSIVE DecimalDigits(_)
DecimalDigits(n) ==
    IF n < 10 THEN <<Digits[n + 1]>>
    ELSE DecimalDigits(n \div 10) \o <<Digits[(n % 10) + 1]>>

\* the number a string starts with: a sign, digits, a fraction.  rest is what
\* follows it.  (An exponent and the word Infinity are not read.)
decimalPrefix(s) ==
    LET neg  == s # <<>> /\ Head(s) = "-"
        u    == IF s # <<>> /\ Head(s) \in {"-", "+"} THEN Tail(s) ELSE s
        ip   == digitPrefix(u)
        r1   == slice(u, Len(ip))
        fp   == IF r1 # <<>> /\ Head(r1) = "." THEN digitPrefix(Tail(r1)) ELSE <<>>
        r2   == IF r1 # <<>> /\ Head(r1) = "." THEN slice(r1, 1 + Len(fp)) ELSE r1
        m    == Q(digitsValue(ip) * Pow10(Len(fp)) + digitsValue(fp), Pow10(Len(fp)))
    IN  [found |-> ip # <<>> \/ fp # <<>>,
         value |-> IF neg THEN QNeg(m) ELSE m,
         rest  |-> r2]

\* parseFloat(v): v is turned into a string first, so anything but a string
\* that starts with a number gives NaN (undefined reads "undefined")
parseFloat(v) ==
    IF v.t = "string" /\ "chars" \in DOMAIN v
    THEN LET p == decimalPrefix(trimStart(v.chars))
         IN  IF p.found THEN p.value ELSE NaN
    ELSE IF v.t = "number" THEN v.num
    ELSE NaN

\* Number(v)
RECURSIVE ToNumber(_)
ToNumber(v) ==
    CASE v.t = "undefined" -> NaN
      [] v.t = "null"      -> Zero
      [] v.t = "boolean"   -> IF v.bool THEN One ELSE Zero
      [] v.t = "number"    -> v.num
      [] v.t = "string" /\ "chars" \in DOMAIN v ->
            LET s == trim(v.chars)
                p == decimalPrefix(s)
            IN  IF s = <<>> THEN Zero
                ELSE IF p.found /\ p.rest = <<>> THEN p.value ELSE NaN
      [] v.t = "string" /\ "chars" \notin DOMAIN v ->
            IF v.text = "" THEN Zero ELSE NaN        \* free text holds no number
      [] v.t = "array"     ->                     \* Number(v.join(","))
            IF v.items = <<>> THEN Zero
            ELSE IF Len(v.items) > 1 THEN NaN
            ELSE IF Nullish(v.items[1]) THEN Zero
            ELSE IF v.items[1].t \in {"number", "string", "array"}
                 THEN ToNumber(v.items[1])
            ELSE NaN
      [] OTHER             -> NaN

\* q || fallback on numbers: 0 and NaN are falsy
OrNumber(q, fallback) == IF IsNaN(q) \/ (q.d > 0 /\ q.n = 0) THEN fallback ELSE q

\* a || b on values
OrElse(a, b) == IF Truthy(a) THEN a ELSE b

\* Math.max(0, Math.min(1, q))
Clamp01(q) == MathMax(Zero, MathMin(One, q))

endsWith(s, p) == Len(s) >= Len(p) /\ SubSeq(s, Len(s) - Len(p) + 1, Len(s)) = p

(***************************************************************************)
(* postprocess: the probabilistic implementation of                        *)
(* services/imageProcessor.js and the objectness implementation of         *)
(* unnamed/part_003                                                        *)
(***************************************************************************)
CLASS_NAMES ==
    << <<"F","r","e","s","h","_","A","p","p","l","e">>,
       <<"F","r","e","s","h","_","B","a","n","a","n","a">>,
       <<"F","r","e","s","h","_","B","e","e","f">>,
       <<"F","r","e","s","h","_","C","a","r","r","o","t">>,
       <<"F","r","e","s","h","_","C","h","i","c","k","e","n">>,
       <<"F","r","e","s","h","_","C","u","c","u","m","b","e","r">>,
       <<"F","r","e","s","h","_","M","a","n","g","g","o">>,
       <<"F","r","e","s","h","_","O","k","r","a">>,
       <<"F","r","e","s","h","_","O","r","a","n","g","e">>,
       <<"F","r","e","s","h","_","P","e","p","p","e","r">>,
       <<"F","r","e","s","h","_","P","o","r","k">>,
       <<"F","r","e","s","h","_","P","o","t","a","t","o">>,
       <<"F","r","e","s","h","_","S","t","r","a","w","b","e","r","r","y">>,
       <<"R","o","t","t","e","n","_","A","p","p","l","e">>,
       <<"R","o","t","t","e","n","_","B","a","n","a","n","a">>,
       <<"R","o","t","t","e","n","_","B","e","e","f">>,
       <<"R","o","t","t","e","n","_","C","a","r","r","o","t">>,
       <<"R","o","t","t","e","n","_","C","h","i","c","k","e","n">>,
       <<"R","o","t","t","e","n","_","C","u","c","u","m","b","e","r">>,
       <<"R","o","t","t","e","n","_","M","a","n","g","g","o">>,
       <<"R","o","t","t","e","n","_","O","k","r","a">>,
       <<"R","o","t","t","e","n","_","O","r","a","n","g","e">>,
       <<"R","o","t","t","e","n","_","P","e","p","p","e","r">>,
       <<"R","o","t","t","e","n","_","P","o","r","k">>,
       <<"R","o","t","t","e","n","_","P","o","t","a","t","o">>,
       <<"R","o","t","t","e","n","_","S","t","r","a","w","b","e","r","r","y">> >>

\* CONFIDENCE_THRESHOLD and NMS_THRESHOLD, read from the environment when the
\* module is loaded
CONFIDENCE_THRESHOLD(e) == OrNumber(parseFloat(e.CONFIDENCE_THRESHOLD), Q(1, 2))
NMS_THRESHOLD(e)        == OrNumber(parseFloat(e.NMS_THRESHOLD), Q(2, 5))

\* data[i] on the Float32Array of the output tensor (i counts from 0)
At(data, i) == IF i < Len(data) THEN NumQ(data[i + 1]) ELSE Undefined

\* Math.exp, on the arguments whose exponential is rational
MathExp(q) ==
    CASE IsNaN(q)            -> NaN
      [] q = PosInf          -> PosInf
      [] q = NegInf          -> Zero
      [] q.d > 0 /\ q.n = 0  -> One

\* Math.max(...arr) on numbers
RECURSIVE MathMaxOf(_)
MathMaxOf(qs) == IF qs = <<>> THEN NegInf ELSE MathMax(Head(qs), MathMaxOf(Tail(qs)))

RECURSIVE SumOf(_)
SumOf(qs) == IF qs = <<>> THEN Zero ELSE QAdd(SumOf(SubSeq(qs, 1, Len(qs) - 1)), qs[Len(qs)])

\* the closures sigmoid and softmax of postprocess
sigmoid(x) == QDiv(One, QAdd(One, MathExp(QNeg(x))))
softmax(arr) ==
    With(MathMaxOf([k \in 1..Len(arr) |-> ToNumber(arr[k])]), LAMBDA max :
    With([k \in 1..Len(arr) |-> MathExp(QSub(ToNumber(arr[k]), max))], LAMBDA exps :
    With(SumOf(exps), LAMBDA sum :
        [k \in 1..Len(exps) |-> QDiv(exps[k], sum)])))

\* the class entries a row is read for: Math.min(numAttributes - 5,
\* CLASS_NAMES.length) of them
maxClassEntries(numAttributes) ==
    IF numAttributes - 5 < Len(CLASS_NAMES) THEN numAttributes - 5 ELSE Len(CLASS_NAMES)
classScoresOf(data, offset, numAttributes) ==
    [j \in 1..maxClassEntries(numAttributes) |-> At(data, offset + 5 + (j - 1))]

\* the loop that finds the greatest probability: [class, prob] after the
\* entries from k on (k counts from 0)
RECURSIVE bestProbFrom(_, _, _)
bestProbFrom(classProbs, k, best) ==
    IF k >= Len(classProbs) THEN best
    ELSE bestProbFrom(classProbs, k + 1,
            IF QGreater(classProbs[k + 1], best.prob)
            THEN [class |-> k, prob |-> classProbs[k + 1]] ELSE best)

\* the loop that finds the greatest raw score: [class, score] after the
\* entries from j on; class is Null until a score exceeds bestScore
RECURSIVE bestScoreFrom(_, _, _)
bestScoreFrom(scores, j, best) ==
    IF j >= Len(scores) THEN best
    ELSE bestScoreFrom(scores, j + 1,
            IF QGreater(ToNumber(scores[j + 1]), best.score)
            THEN [class |-> Num(j), score |-> ToNumber(scores[j + 1])] ELSE best)

Unknown_ == <<"U","n","k","n","o","w","n","_">>

\* the label of a best class index (a number value or null)
labelOf(bestClass) ==
    IF bestClass = Null THEN Label(Unknown_ \o <<"n","a">>)
    ELSE IF bestClass.num.n < 0 \/ bestClass.num.n >= Len(CLASS_NAMES)
         THEN Label(Unknown_ \o DecimalDigits(bestClass.num.n))
         ELSE Label(CLASS_NAMES[bestClass.num.n + 1])

\* the storage_info literal used when the store has nothing for the label
PlaceholderStorageInfo ==
    Obj([storage |-> Str("Unknown"), shelf_life |-> Null,
         tips |-> Str("No data available"), status |-> Str("Unknown")])

\* the object pushed for a kept row; Throw when getStorageData throws
pushed(data, offset, confidence, bestClass, sd, dflt) ==
    With(getStorageData(sd, dflt, labelOf(bestClass)), LAMBDA c :
        IF c.kind = "throw" THEN c
        ELSE Return(Obj([x |-> At(data, offset), y |-> At(data, offset + 1),
                         width |-> At(data, offset + 2), height |-> At(data, offset + 3),
                         confidence |-> confidence,
                         class_id |-> bestClass,
                         label |-> labelOf(bestClass),
                         storage_info |-> OrElse(c.value, PlaceholderStorageInfo)])))

NoPush == [kind |-> "skip"]

\* finalConf: sigmoid(objectness) * class probability, clamped to 0..1
finalConfidence(objectness, bestClassProb) ==
    Clamp01(QMul(IF IsFinite(objectness) THEN sigmoid(objectness) ELSE Zero,
                 OrNumber(bestClassProb, Zero)))

\* one round of the loop over the rows in services/imageProcessor.js: the
\* object pushed, NoPush, or Throw
rowProbabilistic(out, i, thr, sd, dflt) ==
    With(classScoresOf(out.data, i * out.dims[3], out.dims[3]), LAMBDA classScores :
        IF Len(classScores) = 0 THEN NoPush                    \* continue
        ELSE
        With(softmax(classScores), LAMBDA classProbs :
        With(bestProbFrom(classProbs, 1,
                          [class |-> 0, prob |-> OrNumber(classProbs[1], Zero)]),
             LAMBDA best :
        With(finalConfidence(ToNumber(At(out.data, i * out.dims[3] + 4)), best.prob),
             LAMBDA finalConf :
            IF QGeq(finalConf, thr)
            THEN pushed(out.data, i * out.dims[3], NumQ(finalConf), Num(best.class),
                        sd, dflt)
            ELSE NoPush))))

\* one round of the loop over the rows in unnamed/part_003
rowObjectness(out, i, thr, sd, dflt) ==
    With(At(out.data, i * out.dims[3] + 4), LAMBDA conf :
        IF QGeq(ToNumber(conf), thr)
        THEN pushed(out.data, i * out.dims[3], conf,
                    bestScoreFrom(classScoresOf(out.data, i * out.dims[3], out.dims[3]),
                                  0, [class |-> Null, score |-> Zero]).class,
                    sd, dflt)
        ELSE NoPush)

rowOf(impl, out, i, thr, sd, dflt) ==
    IF impl = "probabilistic" THEN rowProbabilistic(out, i, thr, sd, dflt)
    ELSE rowObjectness(out, i, thr, sd, dflt)

\* the first Throw of a sequence of completions, else NoThrow
NoThrow == [kind |-> "none"]
FirstThrow(cs) ==
    IF \E k \in 1..Len(cs) : cs[k].kind = "throw"
    THEN cs[CHOOSE k \in 1..Len(cs) :
                /\ cs[k].kind = "throw"
                /\ \A j \in 1..(k - 1) : cs[j].kind # "throw"]
    ELSE NoThrow

\* the detections pushed by rounds none of which threw
pushedOf(rounds) ==
    Flatten([k \in 1..Len(rounds) |->
                IF rounds[k].kind = "skip" THEN <<>> ELSE <<rounds[k].value>>])

\* the loop over the rows: Return(detections) or the first Throw
rowsLoop(impl, out, thr, sd, dflt) ==
    With([k \in 1..out.dims[2] |-> rowOf(impl, out, k - 1, thr, sd, dflt)],
         LAMBDA rounds :
            IF FirstThrow(rounds) # NoThrow THEN FirstThrow(rounds)
            ELSE Return(pushedOf(rounds)))

\* a detection object as nonMaxSuppression reads it: its index in the list
\* and the numbers its arithmetic makes of the fields (undefined gives NaN)
BoxView(dets, k) ==
    Detection(k, Box(ToNumber(dets[k].v.x), ToNumber(dets[k].v.y),
                     ToNumber(dets[k].v.width), ToNumber(dets[k].v.height)),
              ToNumber(dets[k].v.confidence))

\* the detections that nonMaxSuppression selects from dets
suppressed(dets, thr) ==
    With(nonMaxSuppression([k \in 1..Len(dets) |-> BoxView(dets, k)], thr),
         LAMBDA kept : [k \in 1..Len(kept) |-> dets[kept[k].id]])

\* postprocess(output): Return(the array it returns) or Throw
postprocess(impl, out, e, sd, dflt) ==
    With(rowsLoop(impl, out, CONFIDENCE_THRESHOLD(e), sd, dflt), LAMBDA r :
        IF r.kind = "throw" THEN r
        ELSE Return(Arr(suppressed(r.value, NMS_THRESHOLD(e)))))

(***************************************************************************)
(* postprocess of unnamed/part_001: rows of 5 + CLASS_NAMES.length         *)
(* entries, a threshold parameter, no suppression                          *)
(***************************************************************************)
\* the two digits of a number below 100
TwoDigits(k) == <<Digits[(k \div 10) + 1], Digits[(k % 10) + 1]>>

\* the hundredths nearest to the magnitude a/d, the larger of two that are
\* equally near
Hundredths(a, d) == (2 * 100 * a + d) \div (2 * d)

\* Number.prototype.toFixed(2), for magnitudes below 1e21
toFixed2(q) ==
    IF IsNaN(q) THEN <<"N","a","N">>
    ELSE IF q.d = 0
         THEN (IF q.n < 0 THEN <<"-">> ELSE <<>>) \o <<"I","n","f","i","n","i","t","y">>
    ELSE With(Hundredths(IF q.n < 0 THEN -q.n ELSE q.n, q.d), LAMBDA m :
            (IF q.n < 0 THEN <<"-">> ELSE <<>>)
                \o DecimalDigits(m \div 100) \o <<".">> \o TwoDigits(m % 100))

\* the parameter `threshold = 0.25`: the default stands in for an argument
\* that is left out or undefined
thresholdOf(args) ==
    IF args = <<>> \/ args[1] = Undefined THEN NumQ(Q(1, 4)) ELSE args[1]

\* the rounds of the loop: i < numDetections, where numDetections is
\* outputData.length / (5 + CLASS_NAMES.length) and need not be whole
numDetections001(outputData) ==
    (Len(outputData) + (5 + Len(CLASS_NAMES)) - 1) \div (5 + Len(CLASS_NAMES))

\* the loop over j that finds bestScore and bestClass: [class, score] after
\* the entries from j on (j counts from 5)
RECURSIVE bestFrom001(_, _, _, _)
bestFrom001(outputData, offset, j, best) ==
    IF j >= 5 + Len(CLASS_NAMES) THEN best
    ELSE bestFrom001(outputData, offset, j + 1,
            IF QGreater(ToNumber(At(outputData, offset + j)), best.score)
            THEN [class |-> j - 5, score |-> ToNumber(At(outputData, offset + j))]
            ELSE best)

\* CLASS_NAMES[bestClass] || "Unknown"
className001(bestClass) ==
    IF bestClass \in 0..(Len(CLASS_NAMES) - 1)
    THEN Label(CLASS_NAMES[bestClass + 1])
    ELSE Label(<<"U","n","k","n","o","w","n">>)

\* the object pushed for a row whose score exceeds the threshold
pushed001(outputData, offset, score, bestClass) ==
    Return(Obj([className  |-> className001(bestClass),
                confidence |-> Label(toFixed2(score)),
                bbox       |-> Arr(<<At(outputData, offset), At(outputData, offset + 1),
                                     At(outputData, offset + 2), At(outputData, offset + 3)>>)]))

\* one round of the loop over the rows
row001(outputData, i, thr) ==
    With(bestFrom001(outputData, i * (5 + Len(CLASS_NAMES)), 5,
                     [class |-> -1, score |-> Zero]), LAMBDA best :
    With(QMul(ToNumber(At(outputData, i * (5 + Len(CLASS_NAMES)) + 4)), best.score),
         LAMBDA score :
        IF QGreater(score, ToNumber(thr))
        THEN pushed001(outputData, i * (5 + Len(CLASS_NAMES)), score, best.class)
        ELSE NoPush))

\* the rounds of postprocess(outputData, threshold)
rounds001(outputData, args) ==
    [k \in 1..numDetections001(outputData) |->
        row001(outputData, k - 1, thresholdOf(args))]

\* postprocess(outputData, threshold): the array it returns
postprocess001(outputData, args) == Return(Arr(pushedOf(rounds001(outputData, args))))

\* the rounds of whichever postprocess is called
roundsOf(impl, out, args, e, sd, dflt) ==
    IF impl = "raw" THEN rounds001(out.data, args)
    ELSE [k \in 1..out.dims[2] |-> rowOf(impl, out, k - 1, CONFIDENCE_THRESHOLD(e), sd, dflt)]

\* the call of whichever postprocess is called
postprocessOf(impl, out, args, e, sd, dflt) ==
    IF impl = "raw" THEN postprocess001(out.data, args)
    ELSE postprocess(impl, out, e, sd, dflt)

(***************************************************************************)
(* The remote detection path: detectObjects and processImage of            *)
(* unnamed/part_002, and the handler of POST /api/detect in server.js      *)
(***************************************************************************)
\* the reply of the inference service: no reply but a connection error, or
\* a status with a body
ConnectionError       == [kind |-> "error"]
ServiceReply(st, txt) == [kind |-> "response", status |-> st, body |-> txt]

\* the label detectObjects looks up: a trailing s is cut from a string that
\* starts with Fresh_ or Rotten_
singularLabel(lbl) ==
    IF lbl.t = "string"
       /\ (startsWith(lbl.chars, Fresh_) \/ startsWith(lbl.chars, Rotten_))
       /\ endsWith(lbl.chars, <<"s">>)
    THEN Label(SubSeq(lbl.chars, 1, Len(lbl.chars) - 1))        \* slice(0, -1)
    ELSE lbl

\* the callback of (json.detections || []).map in detectObjects, once the
\* label is made singular
mappedDetection(d, normalizedLabel, c) ==
    IF c.kind = "throw" THEN c
    ELSE Return(Obj([x |-> Field(d, "x"), y |-> Field(d, "y"),
                     width |-> Field(d, "width"), height |-> Field(d, "height"),
                     confidence |-> Field(d, "confidence"),
                     class_id |-> Field(d, "class_id"),
                     label |-> normalizedLabel,
                     storage_info |-> OrElse(c.value, Null)]))

mapDetection(d, sd, dflt) ==
    IF Nullish(d) THEN Throw("TypeError")                       \* d.label
    ELSE mappedDetection(d, singularLabel(Field(d, "label")),
                         getStorageData(sd, dflt, singularLabel(Field(d, "label"))))

\* the values of completions none of which threw
valuesOf(cs) == [k \in 1..Len(cs) |-> cs[k].value]

\* Return(the values) or the first Throw
allOrThrow(cs) == IF FirstThrow(cs) # NoThrow THEN FirstThrow(cs) ELSE Return(valuesOf(cs))

\* (json.detections || []).map(...): Return(the array) or the first Throw
mapDetections(ds, sd, dflt) ==
    allOrThrow([k \in 1..Len(ds) |-> mapDetection(ds[k], sd, dflt)])

\* detectObjects on a reply that parsed to json
detectionsOf(json, sd, dflt) ==
    IF Nullish(json) THEN Throw("TypeError")                    \* json.detections
    ELSE IF OrElse(Field(json, "detections"), Arr(<<>>)).t # "array"
         THEN Throw("TypeError")                                \* .map
         ELSE mapDetections(OrElse(Field(json, "detections"), Arr(<<>>)).items, sd, dflt)

\* ImageProcessor.detectObjects: how its promise settles on the reply of the
\* inference service
detectObjects(outcome, sd, dflt) ==
    IF outcome.kind = "error" THEN Throw("request error")       \* req.on('error')
    ELSE IF outcome.status # 200 THEN Throw("Inference service error")
    ELSE IF ~Parses(outcome.body) THEN Throw("SyntaxError")
    ELSE detectionsOf(JSONparse(outcome.body), sd, dflt)

DetectionDate == Str("detectionDate")

\* the callback with the two fields added whenever there is a storage_info
enrichedWheneverInfo(det, info, croppedUrl) ==
    IF Truthy(info)
    THEN Obj(Merge(det.v,
             [detection_date |-> DetectionDate,
              remaining_life |-> NumQ(QSub(ToNumber(Field(info, "shelf_life")), Zero)),
              croppedImage |-> croppedUrl]))
    ELSE Obj(Merge(det.v, [croppedImage |-> croppedUrl]))

\* the callback of detections.map in processImage
enriched(det, info, croppedUrl) ==
    IF Truthy(info) /\ Truthy(Field(info, "shelf_life"))
    THEN Obj(Merge(det.v,
             [detection_date |-> DetectionDate,
              remaining_life |-> NumQ(QSub(ToNumber(Field(info, "shelf_life")), Zero)),
              croppedImage |-> croppedUrl]))
    ELSE Obj(Merge(det.v, [croppedImage |-> croppedUrl]))
enrich(det) ==
    enriched(det, Field(det, "storage_info"), OrElse(Field(det, "cropped_path"), Null))

\* processImage after the await: the detections enriched, or the rejection
\* thrown on
enrichAll(d) ==
    IF d.kind = "throw" THEN d
    ELSE Return([k \in 1..Len(d.value) |-> enrich(d.value[k])])

\* processImage(filePath): Return(enriched) or Throw; its finally block has
\* removed the file either way
processImage(outcome, sd, dflt) == enrichAll(detectObjects(outcome, sd, dflt))

\* fs.unlinkSync(filePath) in the finally block: the file is removed, or the
\* call throws because there is no such file
unlinkOutcome(files, name) == IF name \in files THEN "removed" ELSE "ENOENT"
unlinkSync(files, name) == files \ {name}

\* a finally block that lets through what unlinkSync throws
afterFinallyRethrowing(completion, unlink) ==
    IF unlink = "ENOENT" THEN Throw("ENOENT") ELSE completion

\* the completion of processImage once its finally block has run: the catch
\* inside the finally block takes what unlinkSync throws
afterFinally(completion, unlink) == completion

\* processImage(filePath) with the upload directory as it is when the call
\* settles
processImageOn(files, name, outcome, sd, dflt) ==
    afterFinally(processImage(outcome, sd, dflt), unlinkOutcome(files, name))

\* the detections with the storage that the calls returned
withStorage(dets, calls) ==
    IF FirstThrow(calls) # NoThrow THEN FirstThrow(calls)
    ELSE Return([k \in 1..Len(dets) |->
                    Obj(Merge(dets[k].v, [storage |-> calls[k].value]))])

\* the loop `detection.storage = getStorageData(detection.label)` of the
\* handler: Return(the detections with storage) or Throw
attachStorage(dets, sd, dflt) ==
    withStorage(dets,
                [k \in 1..Len(dets) |-> getStorageData(sd, dflt, Field(dets[k], "label"))])

\* a.f || b.f || text, and a.f ?? b.f ?? null, with a?.f for a.f
FirstTruthy(a, b, f, text) == OrElse(OrElse(Field(a, f), Field(b, f)), Str(text))
FirstDefined(a, b, f) == Coalesce(Coalesce(Field(a, f), Field(b, f)), Null)

\* the object literal defaultStorage of the handler
defaultStorageOf(st, si) ==
    Obj([storage |-> FirstTruthy(st, si, "storage", "Unknown"),
         shelf_life |-> FirstDefined(st, si, "shelf_life"),
         tips |-> FirstTruthy(st, si, "tips", "No data available"),
         signs_of_spoilage |-> FirstTruthy(st, si, "signs_of_spoilage", "No data available"),
         status |-> FirstTruthy(st, si, "status", "Unknown"),
         waste_disposal |-> FirstDefined(st, si, "waste_disposal")])

\* Math.max(0, Math.min(1, Number(v) || 0))
NormalizedCoordinate(v) == NumQ(Clamp01(OrNumber(ToNumber(v), Zero)))

\* the callback of detections.map in the handler
normalizedDetection(det) ==
    Obj([label |-> Field(det, "label"),
         confidence |-> NumQ(OrNumber(ToNumber(Field(det, "confidence")), Zero)),
         bbox |-> Obj([x |-> NormalizedCoordinate(Field(det, "x")),
                       y |-> NormalizedCoordinate(Field(det, "y")),
                       width |-> NormalizedCoordinate(Field(det, "width")),
                       height |-> NormalizedCoordinate(Field(det, "height"))]),
         storage |-> defaultStorageOf(Field(det, "storage"), Field(det, "storage_info")),
         croppedImage |-> Field(det, "croppedImage")])

\* `/uploads/${req.file.filename}`
UploadUrl(filename) == [t |-> "string", text |-> "/uploads/", name |-> filename]

\* the catch block of the handler
failureResponse(error) ==
    [status |-> 500,
     body |-> Obj([success |-> Bool(FALSE), message |-> Str("Error processing image"),
                   error |-> Str(error)])]

\* the response of the handler once the storage is attached (processing_time_ms
\* and timestamp, which carry the clock, are left out of the body)
successResponse(a, filename) ==
    IF a.kind = "throw" THEN failureResponse(a.error)
    ELSE [status |-> 200,
          body |-> Obj([success |-> Bool(TRUE),
                        detections |->
                            Arr([k \in 1..Len(a.value) |-> normalizedDetection(a.value[k])]),
                        imageUrl |-> UploadUrl(filename)])]

\* the handler after `await processImage(imagePath)`: status and body of its
\* response
detectResponse(p, filename, sd, dflt) ==
    IF p.kind = "throw" THEN failureResponse(p.error)
    ELSE successResponse(attachStorage(p.value, sd, dflt), filename)

\* the labels a detection request looks up: those of the detections, once in
\* detectObjects and once more in the handler
lookedUp(p) ==
    IF p.kind = "throw" THEN <<>>
    ELSE [k \in 1..Len(p.value) |-> Field(p.value[k], "label")]
         \o [k \in 1..Len(p.value) |-> Field(p.value[k], "label")]

\* the record of a detection response
detectReply(p, filename, sd, dflt) ==
    With(detectResponse(p, filename, sd, dflt), LAMBDA a :
        [route |-> "detect", item |-> <<>>, status |-> a.status, body |-> a.body,
         call |-> p, outcome |-> NoOutcome, unlink |-> "none"])

\* what the lookups of one detection request leave in this.storageData: one
\* lookup for each detection in detectObjects, one more in the handler
RECURSIVE storageDataAfterLookups(_, _, _)
storageDataAfterLookups(sd, dflt, labels) ==
    IF labels = <<>> THEN sd
    ELSE storageDataAfterLookups(storageDataAfterLookup(sd, dflt, Head(labels)),
                                 dflt, Tail(labels))

(***************************************************************************)
(* Inputs of postprocess                                                   *)
(***************************************************************************)
MaxRows == 2       \* rows (numPredictions) of an output tensor

\* the environment: each threshold unset or a string
EnvOf(c, n) == [CONFIDENCE_THRESHOLD |-> c, NMS_THRESHOLD |-> n]
EnvInputs ==
    { EnvOf(Undefined, Undefined),
      EnvOf(Label(<<"0",".","2","5">>), Label(<<"0">>)),
      EnvOf(Label(<<"-","1">>), Label(<<"1">>)),
      EnvOf(Undefined, Label(<<"-","1">>)),
      EnvOf(Label(<<"a","b","c">>), Label(<<"0",".","5">>)) }

\* services/imageProcessor.js, unnamed/part_003, unnamed/part_001
Implementations == {"probabilistic", "objectness", "raw"}

\* numAttributes: 5 and less leave no class entry
AttributeCounts == {4, 5, 6, 7}

\* the box of the i-th row: rows 1 and 2 overlap with IoU 2/5, row 3 has the
\* box of row 1
RowBoxes == << Box(Q(0,1), Q(0,1), Q(4,1), Q(1,1)),
               Box(Q(2,1), Q(0,1), Q(3,1), Q(1,1)),
               Box(Q(0,1), Q(0,1), Q(4,1), Q(1,1)) >>
RowBox(i) == RowBoxes[((i - 1) % Len(RowBoxes)) + 1]

\* objectness and class entries.  The probabilistic implementation takes
\* exponentials, so its entries are those with a rational exponential; the
\* objectness implementation reads raw scores.
ObjectnessInputs(impl) ==
    IF impl = "probabilistic" THEN {Zero, NaN}
    ELSE {Q(1,4), Q(1,2), Q(2,1)}
ScoreInputs(impl) ==
    IF impl = "probabilistic" THEN {Zero, NegInf}
    ELSE {Zero, Q(3,2)}

\* a row of numAttributes entries
Row(b, objectness, scores, numAttributes) ==
    SubSeq(<<b.x, b.y, b.width, b.height, objectness>> \o scores, 1, numAttributes)

\* the output tensor of the rows; `short` cuts the last entry off the data
Tensor(rows, numAttributes, short) ==
    LET flat == Flatten(rows)
    IN  [dims |-> <<1, Len(rows), numAttributes>>,
         data |-> IF short /\ flat # <<>> THEN SubSeq(flat, 1, Len(flat) - 1) ELSE flat]

RowChoices(impl, numAttributes) ==
    ObjectnessInputs(impl) \X
        [1..(IF numAttributes > 5 THEN numAttributes - 5 ELSE 0) -> ScoreInputs(impl)]

TensorInputs(impl) ==
    UNION { { Tensor([i \in 1..Len(cs) |->
                         Row(RowBox(i), cs[i][1], cs[i][2], numAttributes)],
                     numAttributes, short) :
                cs \in SeqsUpTo(RowChoices(impl, numAttributes), MaxRows),
                short \in BOOLEAN } :
            numAttributes \in AttributeCounts }

\* the class entries of a row of unnamed/part_001: v at entry a, w at entry
\* b, zero elsewhere
Scores001(a, v, b, w) ==
    [j \in 1..Len(CLASS_NAMES) |-> IF j = a THEN v ELSE IF j = b THEN w ELSE Zero]
ScoreInputs001 ==
    { Scores001(1, Zero, 1, Zero),
      Scores001(1, One, 1, One),
      Scores001(1, One, 3, Q(3,2)),
      Scores001(2, Q(3,2), Len(CLASS_NAMES), Q(3,2)),
      Scores001(Len(CLASS_NAMES), Q(1,8), 1, Zero) }
ObjectnessInputs001 == {Q(1,4), One, NaN}

\* the argument list after outputData: none, or a threshold
ArgInputs001 == { <<>>, <<NumQ(Zero)>>, <<NumQ(Q(-1,1))>> }

TensorInputs001 ==
    { Tensor([i \in 1..Len(cs) |->
                 Row(RowBox(i), cs[i][1], cs[i][2], 5 + Len(CLASS_NAMES))],
             5 + Len(CLASS_NAMES), short) :
        cs \in SeqsUpTo(ObjectnessInputs001 \X ScoreInputs001, MaxRows),
        short \in BOOLEAN }

NoResult == [kind |-> "none"]
NoTensor == [dims |-> <<1, 0, 0>>, data |-> <<>>]

PostIdle ==
    /\ postPc = "idle" /\ postImpl = "none" /\ output = NoTensor
    /\ env = EnvOf(Undefined, Undefined) /\ postArgs = <<>>
    /\ postResult = NoResult /\ postRows = <<>>

(***************************************************************************)
(* Inputs of the server                                                    *)
(***************************************************************************)
MaxRequests == 2   \* detection requests of one behaviour

K_Fresh_Bananas == K_Fresh_Banana \o <<"s">>
K_Durian        == <<"D","u","r","i","a","n">>

\* the override file of the server: none, the text null, a dataset whose one
\* key is written in lower case, a dataset whose one key the default table
\* lacks (its record gives storage and status only), the same with a
\* shelf_life of null
ServerFileInputs ==
    { Absent,
      Present(JSONstringify(Null)),
      Present(JSONstringify(
          Dataset(<<Entry(K_fresh_banana,
                          OverrideRecord([f \in OverrideFields |-> "absent"]))>>))),
      Present(JSONstringify(
          Dataset(<<Entry(K_Durian,
                          OverrideRecord([f \in OverrideFields |-> "absent"]))>>))),
      Present(JSONstringify(
          Dataset(<<Entry(K_Durian,
                          OverrideRecord([f \in OverrideFields |->
                                             IF f = "shelf_life" THEN "null"
                                             ELSE "absent"]))>>))) }

ServerLabels == {K_Fresh_Apple, K_Fresh_Banana, K_Durian, K_constructor}

\* what the inference service may say of one detection: the label, the
\* numbers, the path of the cropped image; each may be missing
ServiceLabels ==
    { [label |-> Label(K_Fresh_Apple)], [label |-> Label(K_Fresh_Bananas)],
      [label |-> Label(K_Rotten_Apple)], [label |-> Label(K_Durian)], EmptyRecord }
ServiceNumbers ==
    { [x |-> NumQ(Q(1,2)), y |-> NumQ(Q(1,4)), width |-> NumQ(Q(1,4)),
       height |-> NumQ(Q(1,2)), confidence |-> NumQ(Q(9,10)), class_id |-> Num(0)],
      [x |-> NumQ(Q(-1,2)), y |-> NumQ(Q(3,2)), width |-> Num(2),
       confidence |-> NumQ(Q(3,2))],
      [x |-> Label(<<"a","b","c">>), y |-> Null, width |-> Label(<<"0",".","5">>),
       height |-> Num(0), confidence |-> Null] }
ServiceCrops ==
    { [cropped_path |-> Label(<<"/","c","r","o","p","s","/","1",".","j","p","g">>)],
      EmptyRecord }
\* each label with one choice of numbers and a cropped image, and each
\* choice of numbers and of cropped image with one label
ServiceDetections ==
    { Obj(Merge(Merge(l, CHOOSE n \in ServiceNumbers : "class_id" \in DOMAIN n),
                CHOOSE c \in ServiceCrops : "cropped_path" \in DOMAIN c)) :
        l \in ServiceLabels }
    \cup
    { Obj(Merge(Merge([label |-> Label(K_Durian)], n), c)) :
        n \in ServiceNumbers, c \in ServiceCrops }

ServiceLists ==
    { <<>> } \cup { <<d>> : d \in ServiceDetections }
    \cup { <<Obj(Merge([label |-> Label(K_Fresh_Apple)],
                       CHOOSE n \in ServiceNumbers : "class_id" \in DOMAIN n)),
             Obj([label |-> Label(K_Durian)])>> }

ServiceJson ==
    { Obj([detections |-> Arr(ds)]) : ds \in ServiceLists }
    \cup { Null, Obj(EmptyRecord), Obj([detections |-> Num(1)]),
           Obj([detections |-> Arr(<<Null>>)]) }

\* the text {"detections":[{"x":1e999,"y":-1e999,"confidence":1e999,
\* "label":"Fresh_Apple"}]}: JSON.parse reads a number too large for a double
\* as Infinity
OverflowText ==
    [j |-> "record",
     fields |-> << <<"detections",
        [j |-> "array",
         items |-> << [j |-> "record",
                       fields |-> << <<"x", [j |-> "number", num |-> PosInf]>>,
                                     <<"y", [j |-> "number", num |-> NegInf]>>,
                                     <<"confidence", [j |-> "number", num |-> PosInf]>>,
                                     <<"label", [j |-> "string",
                                                 str |-> Label(K_Fresh_Apple)]>> >>] >>]>> >>]

InferenceOutcomes ==
    { ConnectionError, ServiceReply(500, Garbage), ServiceReply(200, Garbage),
      ServiceReply(200, OverflowText) }
    \cup { ServiceReply(200, JSONstringify(j)) : j \in ServiceJson }

NewRequest == [pc |-> "new", responses |-> 0, settled |-> FALSE]

DetectIdle ==
    /\ uploads = {} /\ requests = [r \in 1..MaxRequests |-> NewRequest]

(***************************************************************************)
(* Inputs of loadModel                                                     *)
(***************************************************************************)
MaxCallers == 3    \* callers of loadModel in one process

LoadIdle ==
    /\ loadImpl = "none" /\ session = "null"
    /\ loaders = [c \in 1..MaxCallers |-> "idle"]
    /\ creations = 0 /\ loadFailed = FALSE

(***************************************************************************)
(* The label normalizer applied once and twice                             *)
(***************************************************************************)
InitNorm ==
    /\ normPc = "input"
    /\ label \in LabelInputs
    /\ normOnce = <<>>
    /\ normTwice = <<>>
    /\ NmsIdle
    /\ StoreIdle
    /\ DetectIdle
    /\ LoadIdle
    /\ PostIdle

NormalizeOnce ==
    /\ normPc = "input"
    /\ normOnce' = normalizeLabel(label)
    /\ normPc' = "once"
    /\ UNCHANGED <<label, normTwice, nmsVars, storeVars, detectVars, loadVars, postVars>>

NormalizeTwice ==
    /\ normPc = "once"
    /\ normTwice' = normalizeLabel(normOnce)
    /\ normPc' = "twice"
    /\ UNCHANGED <<label, normOnce, nmsVars, storeVars, detectVars, loadVars, postVars>>

NextNorm == NormalizeOnce \/ NormalizeTwice
SpecNorm == InitNorm /\ [][NextNorm]_vars

(***************************************************************************)
(* One call of nonMaxSuppression, round by round                           *)
(***************************************************************************)
InitNms ==
    /\ nmsPc = "call"
    /\ nmsInput \in DetectionLists
    /\ callerBoxes = nmsInput
    /\ boxes = nmsInput
    /\ boxesIsCallers = TRUE
    /\ selected = <<>>
    /\ threshold \in ThresholdInputs
    /\ lastRound = NoRound
    /\ NormIdle
    /\ StoreIdle
    /\ DetectIdle
    /\ LoadIdle
    /\ PostIdle

\* if (boxes.length === 0) return [];
NmsReturnEmpty ==
    /\ nmsPc = "call"
    /\ Len(boxes) = 0
    /\ nmsPc' = "done"
    /\ UNCHANGED <<nmsInput, callerBoxes, boxes, boxesIsCallers, selected,
                   threshold, lastRound, normVars, storeVars, detectVars, loadVars, postVars>>

\* boxes.sort(...) sorts the caller's array in place; const selected = [];
NmsSort ==
    /\ nmsPc = "call"
    /\ Len(boxes) # 0
    /\ boxes' = sortByConfidence(boxes)
    /\ callerBoxes' = sortByConfidence(boxes)
    /\ selected' = <<>>
    /\ nmsPc' = "loop"
    /\ UNCHANGED <<nmsInput, boxesIsCallers, threshold, lastRound, normVars, storeVars, detectVars, loadVars, postVars>>

\* one round of the while loop: shift() takes the first element out of the
\* array `boxes` names (the caller's own array in the first round), filter()
\* builds a new array
NmsRound ==
    /\ nmsPc = "loop"
    /\ Len(boxes) > 0
    /\ LET current == Head(boxes)
           rest    == Tail(boxes)
       IN  /\ selected' = Append(selected, current)
           /\ boxes' = filterBoxes(rest, current, threshold)
           /\ lastRound' = [current |-> <<current>>, before |-> rest,
                            after |-> filterBoxes(rest, current, threshold)]
    /\ callerBoxes' = IF boxesIsCallers THEN Tail(callerBoxes) ELSE callerBoxes
    /\ boxesIsCallers' = FALSE
    /\ UNCHANGED <<nmsPc, nmsInput, threshold, normVars, storeVars, detectVars, loadVars, postVars>>

\* return selected;
NmsReturn ==
    /\ nmsPc = "loop"
    /\ Len(boxes) = 0
    /\ nmsPc' = "done"
    /\ UNCHANGED <<nmsInput, callerBoxes, boxes, boxesIsCallers, selected,
                   threshold, lastRound, normVars, storeVars, detectVars, loadVars, postVars>>

NextNms == NmsReturnEmpty \/ NmsSort \/ NmsRound \/ NmsReturn
SpecNms == InitNms /\ [][NextNms]_vars

\* the same call seen from before it is made: a caller calls
\* nonMaxSuppression(boxes, threshold) and the call runs on, the loop being
\* synchronous code that nothing interrupts
InitNmsCaller ==
    /\ NmsIdle
    /\ NormIdle
    /\ StoreIdle
    /\ DetectIdle
    /\ LoadIdle
    /\ PostIdle

NmsCall ==
    /\ nmsPc = "idle"
    /\ nmsPc' = "call"
    /\ nmsInput' \in DetectionLists
    /\ callerBoxes' = nmsInput'
    /\ boxes' = nmsInput'
    /\ boxesIsCallers' = TRUE
    /\ selected' = <<>>
    /\ threshold' \in ThresholdInputs
    /\ UNCHANGED <<lastRound, normVars, storeVars, detectVars, loadVars, postVars>>

NextNmsCaller == NmsCall \/ NmsReturnEmpty \/ NmsSort \/ NmsRound \/ NmsReturn
SpecNmsFair == InitNmsCaller /\ [][NextNmsCaller]_vars /\ WF_vars(NextNms)

(***************************************************************************)
(* Properties of nonMaxSuppression                                         *)
(***************************************************************************)
SameBox(a, b) ==
    a.x = b.x /\ a.y = b.y /\ a.width = b.width /\ a.height = b.height

\* two detections with one and the same box and confidences 0.9 and 0.8,
\* suppressed at threshold 0.4
IsNmsExample ==
    /\ Len(nmsInput) = 2
    /\ threshold = Q(2, 5)
    /\ SameBox(nmsInput[1], nmsInput[2])
    /\ {nmsInput[1].confidence, nmsInput[2].confidence} = {Q(9, 10), Q(8, 10)}

\* C2: when nonMaxSuppression has returned, every returned detection is an
\* unaltered detection of the input, none is returned twice, no two returned
\* detections have an IoU greater than the threshold, and of two detections
\* with the same box and confidences 0.9 and 0.8 at threshold 0.4 only the 0.9
\* one is returned.
NmsOutputIsSubsetWithoutOverlap ==
    nmsPc = "done" =>
        /\ \A i \in 1..Len(selected) :
              /\ selected[i].id \in 1..Len(nmsInput)
              /\ selected[i] = nmsInput[selected[i].id]
        /\ \A i, j \in 1..Len(selected) :
              i # j => /\ selected[i].id # selected[j].id
                       /\ ~QGreater(iou(selected[i], selected[j]), threshold)
        /\ IsNmsExample =>
              /\ Len(selected) = 1
              /\ selected[1].confidence = Q(9, 10)

\* C2 witness: the call on the two same-box detections has returned one of them
NmsExampleReturned ==
    nmsPc = "done" /\ IsNmsExample /\ Len(selected) = 1

\* C3: in every round the detections discarded from the working set are those
\* and only those whose IoU with the selected detection exceeds the threshold;
\* one whose IoU equals the threshold, or is below it, stays.
NmsDiscardsOnlyAboveThreshold ==
    \A k \in 1..Len(lastRound.before) :
        LET b == lastRound.before[k]
        IN  (b \notin Range(lastRound.after))
                <=> QGreater(iou(lastRound.current[1], b), threshold)

\* C15: the returned list is in the order of selection: confidences never
\* increase along it, and of two returned detections of equal confidence the
\* one that came first in the input comes first.
NmsOutputInSelectionOrder ==
    nmsPc = "done" =>
        \A i, j \in 1..Len(selected) :
            i < j =>
                /\ ~QLess(selected[i].confidence, selected[j].confidence)
                /\ QEq(selected[i].confidence, selected[j].confidence)
                      => selected[i].id < selected[j].id

\* C15 witness: three detections are returned, the first of which came last
\* in the input, the two others of equal confidence
NmsReturnedTiesBehindLateMaximum ==
    /\ nmsPc = "done"
    /\ Len(selected) = 3
    /\ selected[1].id = 3
    /\ QLess(selected[2].confidence, selected[1].confidence)
    /\ QEq(selected[2].confidence, selected[3].confidence)

\* a box of zero width or zero height
ZeroArea(b) == QEq(b.width, Zero) \/ QEq(b.height, Zero)

\* C16: a detection is discarded in a round whose selected detection has a
\* zero-area box, or is discarded while its own box has zero area, only if
\* the two boxes have exactly the same coordinates (so two zero-area boxes
\* at different positions are both returned).
ZeroAreaBoxNeitherSuppressesNorIsSuppressed ==
    \A k \in 1..Len(lastRound.before) :
        (/\ lastRound.before[k] \notin Range(lastRound.after)
         /\ (ZeroArea(lastRound.before[k]) \/ ZeroArea(lastRound.current[1])))
        => SameBox(lastRound.before[k], lastRound.current[1])

\* C19: when nonMaxSuppression has returned, the caller's list holds the
\* detections it held when the call was made, unaltered and in the same
\* order.
NmsLeavesCallersListAlone ==
    nmsPc = "done" => callerBoxes = nmsInput

\* a detection of the list whose confidence none of the input exceeds
HoldsMaximum(list) ==
    \E i \in 1..Len(list) :
        \A k \in 1..Len(nmsInput) :
            ~QLess(list[i].confidence, nmsInput[k].confidence)

\* C20: every call of nonMaxSuppression that is made returns; what it
\* returns is empty if and only if the input is empty, and for a non-empty
\* input it holds a detection of maximum confidence.
NmsTerminatesWithMaximum ==
    /\ (nmsPc = "call") ~> (nmsPc = "done")
    /\ [](nmsPc = "done" =>
            /\ (selected = <<>>) <=> (nmsInput = <<>>)
            /\ nmsInput # <<>> => HoldsMaximum(selected))

\* C20 witness: the call on a single detection has returned that detection
NmsSingleDetectionReturned ==
    nmsPc = "done" /\ Len(nmsInput) = 1 /\ selected = nmsInput

(***************************************************************************)
(* Properties of normalizeLabel                                            *)
(***************************************************************************)
\* C4: normalizeLabel(normalizeLabel(x)) = normalizeLabel(x) for every x.
NormalizeIsIdempotent ==
    normPc = "twice" => normTwice = normOnce

\* the reference of the label normalizer, segment by segment
Capitalized(seg) ==
    IF seg = <<>> THEN <<>>
    ELSE toUpperCase(<<seg[1]>>) \o toLowerCase(SubSeq(seg, 2, Len(seg)))
ReferenceNormalize(x) ==
    LET t    == trim(x)
        segs == split(t)
    IN  IF Len(segs) = 1 THEN t
        ELSE join([i \in 1..Len(segs) |->
                 IF i = 1
                 THEN (IF toLowerCase(segs[1]) = <<"f","r","e","s","h">>
                           THEN <<"F","r","e","s","h">>
                       ELSE IF toLowerCase(segs[1]) = <<"r","o","t","t","e","n">>
                           THEN <<"R","o","t","t","e","n">>
                       ELSE segs[1])
                 ELSE IF i = 2 THEN Capitalized(segs[2])
                 ELSE segs[i]])

fresh_apple == <<"f","r","e","s","h","_","a","p","p","l","e">>
Fresh_APPLE == <<"F","r","e","s","h","_","A","P","P","L","E">>
Fresh_Apple == <<"F","r","e","s","h","_","A","p","p","l","e">>

\* C5: normalizeLabel returns what the reference returns (trim, canonical
\* Fresh_/Rotten_ prefix, second segment capitalized, later segments
\* untouched, no underscore: the trimmed input), and both fresh_apple and
\* Fresh_APPLE become Fresh_Apple.
NormalizeMatchesReference ==
    normPc \in {"once", "twice"} =>
        /\ normOnce = ReferenceNormalize(label)
        /\ label \in {fresh_apple, Fresh_APPLE} => normOnce = Fresh_Apple

\* C5 witness: Fresh_APPLE has been normalized to Fresh_Apple
NormalizedFreshApple ==
    normPc = "once" /\ label = Fresh_APPLE /\ normOnce = Fresh_Apple

(***************************************************************************)
(* The process and its storage routes                                      *)
(***************************************************************************)
\* const storageService = new StorageService(): the dataset is loaded when the
\* module is first required, as the process starts
Start(io) ==
    /\ proc = "down"
    /\ LET r == loadStorageData(file, defaults, io)
       IN  /\ storageData' = r.data
           /\ file' = r.file
           /\ loadLog' = [before |-> file, io |-> io,
                          created |-> loadLog.created \/ r.file # file]
    /\ proc' = "up"
    /\ UNCHANGED <<defaults, reply>>

\* the process ends; the file stays
Stop ==
    /\ proc = "up"
    /\ proc' = "down"
    /\ storageData' = Undefined
    /\ reply' = NoReply
    /\ UNCHANGED <<file, defaults, loadLog>>

\* app.get('/api/storage/:itemName'); an exception leaves the handler and
\* Express answers 500
GetStorageItem(itemName) ==
    /\ proc = "up"
    /\ LET c == getStorageData(storageData, defaults, Label(itemName))
       IN  reply' = [route |-> "item", item |-> itemName,
                     status |-> IF c.kind = "throw" THEN 500
                                ELSE IF ~Truthy(c.value) THEN 404 ELSE 200,
                     body |-> IF c.kind = "throw" THEN Undefined ELSE c.value,
                     call |-> c, outcome |-> NoOutcome, unlink |-> "none"]
    /\ storageData' = storageDataAfterLookup(storageData, defaults, Label(itemName))
    /\ UNCHANGED <<file, proc, defaults, loadLog>>

\* app.get('/api/storage')
GetStorageAll ==
    /\ proc = "up"
    /\ LET c == getStorageData(storageData, defaults, Undefined)
       IN  reply' = [route |-> "all", item |-> <<>>,
                     status |-> IF c.kind = "throw" THEN 500 ELSE 200,
                     body |-> IF c.kind = "throw" THEN Undefined ELSE c.value,
                     call |-> c, outcome |-> NoOutcome, unlink |-> "none"]
    /\ storageData' = storageDataAfterLookup(storageData, defaults, Undefined)
    /\ UNCHANGED <<file, proc, defaults, loadLog>>

InitStore ==
    /\ file \in StoreFileInputs
    /\ proc = "down"
    /\ storageData = Undefined
    /\ defaults = DEFAULT_STORAGE_DATA
    /\ reply = NoReply
    /\ loadLog = NoLoad
    /\ DetectIdle
    /\ LoadIdle
    /\ PostIdle
    /\ NormIdle
    /\ NmsIdle

NextStore ==
    \/ \E io \in IoOutcomes : Start(io) /\ UNCHANGED <<normVars, nmsVars, detectVars, loadVars, postVars>>
    \/ Stop /\ UNCHANGED <<normVars, nmsVars, detectVars, loadVars, postVars>>
    \/ \E itemName \in LookupLabels :
          GetStorageItem(itemName)
              /\ UNCHANGED <<normVars, nmsVars, detectVars, loadVars, postVars>>
    \/ GetStorageAll /\ UNCHANGED <<normVars, nmsVars, detectVars, loadVars, postVars>>

SpecStore == InitStore /\ [][NextStore]_vars

(***************************************************************************)
(* Properties of the reference data store                                  *)
(***************************************************************************)
\* the last response answers a lookup of one item in a dataset object
ItemLookedUp == reply.route = "item" /\ proc = "up" /\ IsDataset(storageData)

\* the normalized label equals a key of the active dataset, exactly or
\* without regard to case
MatchesSomeKey(normalized) ==
    \E i \in 1..Len(storageData.e) :
        toLowerCase(storageData.e[i].key) = toLowerCase(normalized)

\* C6: a lookup of a non-empty label whose normalized form equals no key of
\* the active dataset, exactly or case-insensitively, returns null without
\* throwing, and the route answers 404.
UnknownLabelYieldsNull ==
    (ItemLookedUp /\ reply.item # <<>> /\ ~MatchesSomeKey(normalizeLabel(reply.item)))
        => reply.call = Return(Null) /\ reply.status = 404

\* the entry of the override dataset that getStorageData finds for a label,
\* and the own record of the default table under the normalized label
FoundEntry(normalized) ==
    IF HasOwn(storageData, normalized) /\ Truthy(OwnValue(storageData, normalized))
    THEN OwnValue(storageData, normalized)
    ELSE scanEntries(storageData.e, normalized)
DefaultFields(normalized) ==
    IF HasOwn(defaults, normalized) THEN Spread(OwnValue(defaults, normalized))
    ELSE EmptyRecord

\* the last response answers a lookup that found a record in an override
\* dataset (a dataset parsed from the file)
OverrideRecordFound ==
    /\ ItemLookedUp
    /\ loadLog.before.state = "present"
    /\ storageData # defaults
    /\ normalizeLabel(reply.item) \notin ObjectPrototypeKeys
    /\ IsRecord(FoundEntry(normalizeLabel(reply.item)))

BackfilledFields == {"storage_methods", "ripeness_guide", "preparation_tips", "source"}
BackfillOf(f) ==
    CASE f = "storage_methods"  -> Arr(<<>>)
      [] f = "ripeness_guide"   -> Obj(EmptyRecord)
      [] f = "preparation_tips" -> Obj(EmptyRecord)
      [] f = "source"           -> Str("Unknown")

\* C7 as claimed: the record returned for an override entry keeps every field
\* the override has, takes every other field of the default from the default,
\* and has nothing else.
MergeKeepsEveryOverrideField ==
    OverrideRecordFound =>
        LET e == FoundEntry(normalizeLabel(reply.item)).v
            d == DefaultFields(normalizeLabel(reply.item))
            r == reply.call.value.v
        IN  /\ reply.call.kind = "return"
            /\ DOMAIN r = DOMAIN e \cup DOMAIN d
            /\ \A f \in DOMAIN e : r[f] = e[f]
            /\ \A f \in DOMAIN d \ DOMAIN e : r[f] = d[f]

\* C7 amended: every field of the override that is not null keeps the
\* override's value, as does a null field other than the four backfilled ones;
\* a field the override lacks takes the default's value; the four backfilled
\* fields are always there: where the override has none or null, the
\* default's value if it has one that is not null, else [], {}, {}, "Unknown".
MergePrefersOverrideAndBackfills ==
    OverrideRecordFound =>
        LET e == FoundEntry(normalizeLabel(reply.item)).v
            d == DefaultFields(normalizeLabel(reply.item))
            r == reply.call.value.v
            has(g, f) == f \in DOMAIN g /\ ~Nullish(g[f])
        IN  /\ reply.call.kind = "return"
            /\ reply.status = 200
            /\ DOMAIN r = DOMAIN e \cup DOMAIN d \cup BackfilledFields
            /\ \A f \in DOMAIN e :
                  (f \notin BackfilledFields \/ ~Nullish(e[f])) => r[f] = e[f]
            /\ \A f \in DOMAIN d \ DOMAIN e :
                  (f \notin BackfilledFields \/ ~Nullish(d[f])) => r[f] = d[f]
            /\ \A f \in BackfilledFields :
                  r[f] = IF has(e, f) THEN e[f] ELSE IF has(d, f) THEN d[f]
                         ELSE BackfillOf(f)

\* C7 witness: an override record without `source` was found for a key that
\* the default table has, and the response carries the default's source
SourceBackfilledFromDefault ==
    /\ OverrideRecordFound
    /\ "source" \notin DOMAIN FoundEntry(normalizeLabel(reply.item)).v
    /\ "source" \in DOMAIN DefaultFields(normalizeLabel(reply.item))
    /\ reply.call.value.v["source"] = DefaultFields(normalizeLabel(reply.item))["source"]
    /\ reply.call.value.v["storage"] = Str("Keep cool")

\* C8: once loaded there is an active dataset: the defaults if the file was
\* absent (and the file then holds the defaults, unless it could not be
\* written), the parsed content if the file was there and parsed, the
\* defaults if reading or parsing failed; and any load after one that created
\* the file yields the defaults.
LoadYieldsActiveDataset ==
    proc = "up" =>
        LET b == loadLog.before
            failed == b.state # "absent" /\
                        (b.state = "unreadable" \/ loadLog.io = "read fails"
                         \/ ~Parses(b.text))
        IN  /\ storageData # Undefined
            /\ b.state = "absent" => /\ storageData = DEFAULT_STORAGE_DATA
                                     /\ loadLog.io \notin {"mkdir fails", "write fails"} =>
                                          /\ file.state = "present"
                                          /\ Parses(file.text)
                                          /\ JSONparse(file.text) = DEFAULT_STORAGE_DATA
                                     /\ loadLog.io \in {"mkdir fails", "write fails"}
                                          => file = b
            /\ (b.state # "absent" /\ ~failed) => /\ storageData = JSONparse(b.text)
                                                  /\ file = b
            /\ (b.state # "absent" /\ failed) => /\ storageData = DEFAULT_STORAGE_DATA
                                                 /\ file = b
            /\ loadLog.created => storageData = DEFAULT_STORAGE_DATA

\* C8 witness: the process runs on a dataset read back from the file that an
\* earlier start created
ReloadedAfterBootstrap ==
    /\ proc = "up"
    /\ loadLog.created
    /\ loadLog.before.state = "present"
    /\ loadLog.io = "ok"
    /\ storageData = DEFAULT_STORAGE_DATA

(***************************************************************************)
(* One call of postprocess on a loaded store                               *)
(***************************************************************************)
\* the store as a start leaves it when the file holds the default table
StoreLoaded ==
    /\ file = Present(JSONstringify(DEFAULT_STORAGE_DATA))
    /\ proc = "up"
    /\ storageData = JSONparse(JSONstringify(DEFAULT_STORAGE_DATA))
    /\ defaults = DEFAULT_STORAGE_DATA
    /\ reply = NoReply
    /\ loadLog = [before |-> Present(JSONstringify(DEFAULT_STORAGE_DATA)),
                  io |-> "ok", created |-> FALSE]

InitPost ==
    /\ postPc = "input"
    /\ postImpl \in Implementations
    /\ output \in IF postImpl = "raw" THEN TensorInputs001 ELSE TensorInputs(postImpl)
    /\ env \in IF postImpl = "raw" THEN {EnvOf(Undefined, Undefined)} ELSE EnvInputs
    /\ postArgs \in IF postImpl = "raw" THEN ArgInputs001 ELSE {<<>>}
    /\ postResult = NoResult
    /\ postRows = <<>>
    /\ StoreLoaded
    /\ DetectIdle
    /\ LoadIdle
    /\ NormIdle
    /\ NmsIdle

\* this.postprocess(output), or postprocess(outputData, threshold) of
\* unnamed/part_001
Postprocess ==
    /\ postPc = "input"
    /\ postResult' = postprocessOf(postImpl, output, postArgs, env, storageData, defaults)
    /\ postRows' = roundsOf(postImpl, output, postArgs, env, storageData, defaults)
    /\ postPc' = "done"
    /\ UNCHANGED <<postImpl, output, env, postArgs>>

NextPost == Postprocess /\ UNCHANGED <<normVars, nmsVars, storeVars, detectVars, loadVars>>

SpecPost == InitPost /\ [][NextPost]_vars

(***************************************************************************)
(* The server: the storage routes and POST /api/detect                     *)
(***************************************************************************)
NoFileBody == Obj([success |-> Bool(FALSE), message |-> Str("No image uploaded.")])

Answered(q) == [q EXCEPT !.pc = "answered", !.responses = @ + 1]

\* POST /api/detect without a file: the handler answers 400 at once
DetectWithoutFile(r) ==
    /\ proc = "up"
    /\ requests[r].pc = "new"
    /\ requests' = [requests EXCEPT ![r] = Answered(@)]
    /\ reply' = [route |-> "detect", item |-> <<>>, status |-> 400,
                 body |-> NoFileBody, call |-> Return(Undefined),
                 outcome |-> NoOutcome, unlink |-> "none"]
    /\ UNCHANGED <<uploads, file, proc, storageData, defaults, loadLog>>

\* POST /api/detect with a file: multer stores it under a name of its own (the
\* request's), the handler calls processImage, detectObjects sends the
\* image to the inference service
DetectUpload(r) ==
    /\ proc = "up"
    /\ requests[r].pc = "new"
    /\ uploads' = uploads \cup {r}
    /\ requests' = [requests EXCEPT ![r] = [@ EXCEPT !.pc = "inferring"]]
    /\ UNCHANGED storeVars

\* req.setTimeout(120000); res.setTimeout(120000) with no 'timeout' listener:
\* the socket of a request that waits is destroyed when the time is up, and
\* nothing is sent on it
SocketTimeout(r) ==
    /\ requests[r].pc = "inferring"
    /\ requests' = [requests EXCEPT ![r] = [@ EXCEPT !.pc = "closed"]]
    /\ UNCHANGED <<uploads, storeVars>>

\* the daily cleanup (setInterval): a file of the upload directory that is
\* older than a day is unlinked
CleanupRemoves(r) ==
    /\ proc = "up"
    /\ r \in uploads
    /\ uploads' = uploads \ {r}
    /\ UNCHANGED <<requests, storeVars>>

\* the reply of the inference service arrives (or the connection fails):
\* detectObjects settles, processImage enriches and removes the file, the
\* handler attaches the storage records and answers, on a socket that is
\* still there
InferenceSettles(r, outcome) ==
    /\ requests[r].pc \in {"inferring", "closed"}
    /\ ~requests[r].settled
    /\ \E p \in {processImageOn(uploads, r, outcome, storageData, defaults)} :
         /\ reply' = IF requests[r].pc = "inferring"
                     THEN [detectReply(p, r, storageData, defaults)
                             EXCEPT !.outcome = outcome,
                                    !.unlink = unlinkOutcome(uploads, r)]
                     ELSE reply
         /\ storageData' = storageDataAfterLookups(storageData, defaults, lookedUp(p))
    /\ uploads' = unlinkSync(uploads, r)
    /\ requests' = [requests EXCEPT ![r] =
                        [(IF @.pc = "inferring" THEN Answered(@) ELSE @)
                            EXCEPT !.settled = TRUE]]
    /\ UNCHANGED <<file, proc, defaults, loadLog>>

Init ==
    /\ file \in ServerFileInputs
    /\ proc = "down"
    /\ storageData = Undefined
    /\ defaults = DEFAULT_STORAGE_DATA
    /\ reply = NoReply
    /\ loadLog = NoLoad
    /\ DetectIdle
    /\ LoadIdle
    /\ PostIdle
    /\ NormIdle
    /\ NmsIdle

Next ==
    \/ \E io \in {"ok", "write fails"} :
          Start(io) /\ UNCHANGED <<normVars, nmsVars, detectVars, loadVars, postVars>>
    \/ \E itemName \in ServerLabels :
          GetStorageItem(itemName) /\ UNCHANGED <<normVars, nmsVars, detectVars, loadVars, postVars>>
    \/ GetStorageAll /\ UNCHANGED <<normVars, nmsVars, detectVars, loadVars, postVars>>
    \/ \E r \in 1..MaxRequests :
          DetectWithoutFile(r) /\ UNCHANGED <<normVars, nmsVars, loadVars, postVars>>
    \/ \E r \in 1..MaxRequests :
          DetectUpload(r) /\ UNCHANGED <<normVars, nmsVars, loadVars, postVars>>
    \/ \E r \in 1..MaxRequests, outcome \in InferenceOutcomes :
          InferenceSettles(r, outcome) /\ UNCHANGED <<normVars, nmsVars, loadVars, postVars>>
    \/ \E r \in 1..MaxRequests :
          SocketTimeout(r) /\ UNCHANGED <<normVars, nmsVars, loadVars, postVars>>
    \/ \E r \in 1..MaxRequests :
          CleanupRemoves(r) /\ UNCHANGED <<normVars, nmsVars, loadVars, postVars>>

Spec == Init /\ [][Next]_vars

(***************************************************************************)
(* Properties of postprocess                                               *)
(***************************************************************************)
PostReturned == postPc = "done" /\ postResult.kind = "return"

\* C1: every detection that postprocess returns has a confidence between 0
\* and 1, both included.
ConfidenceWithinUnitInterval ==
    PostReturned =>
        \A k \in 1..Len(postResult.value.items) :
            /\ QGeq(ToNumber(postResult.value.items[k].v.confidence), Zero)
            /\ QGeq(One, ToNumber(postResult.value.items[k].v.confidence))

\* C10: a tensor whose rows have no class entry (numAttributes - 5 <= 0)
\* yields no detection, whatever the objectness of its rows.
RowWithoutClassEntriesIsSkipped ==
    (PostReturned /\ output.dims[3] - 5 <= 0) => postResult.value.items = <<>>

\* the k-th round of the loop over the rows pushed a detection
KeptRow(k) == postRows[k].kind = "return"

\* the best class of the k-th row as the loop left it: the class_id of the
\* detection, or bestClass of unnamed/part_001, which the detection lacks
BestClassOfRow(k) ==
    IF postImpl = "raw"
    THEN Num(bestFrom001(output.data, (k - 1) * (5 + Len(CLASS_NAMES)), 5,
                         [class |-> -1, score |-> Zero]).class)
    ELSE postRows[k].value.v.class_id

\* the label of the detection of the k-th row
LabelOfRow(k) ==
    IF postImpl = "raw" THEN postRows[k].value.v.className
    ELSE postRows[k].value.v.label

\* c is the index of a declared class
Resolvable(c) ==
    c.t = "number" /\ c.num.d = 1 /\ c.num.n \in 0..(Len(CLASS_NAMES) - 1)

\* the decimal text of a whole number
IndexText(n) == IF n < 0 THEN <<"-">> \o DecimalDigits(-n) ELSE DecimalDigits(n)

\* C11: postprocess does not throw, and every kept row whose best class is
\* not the index of a declared class has the label Unknown_<index>, with
\* the index of that best class.
UnresolvedClassGetsIndexedLabel ==
    postPc = "done" =>
        /\ postResult.kind = "return"
        /\ \A k \in 1..Len(postRows) :
              (KeptRow(k) /\ ~Resolvable(BestClassOfRow(k))) =>
                  /\ BestClassOfRow(k).t = "number"
                  /\ BestClassOfRow(k).num.d = 1
                  /\ LabelOfRow(k) = Label(Unknown_ \o IndexText(BestClassOfRow(k).num.n))

\* the entries of the k-th row: where it starts, its objectness, and the
\* class entries the loop reads
OffsetOfRow(k) ==
    (k - 1) * (IF postImpl = "raw" THEN 5 + Len(CLASS_NAMES) ELSE output.dims[3])
ObjectnessOfRow(k) == ToNumber(At(output.data, OffsetOfRow(k) + 4))
ScoresOfRow(k) ==
    [j \in 1..(IF postImpl = "raw" THEN Len(CLASS_NAMES)
               ELSE IF maxClassEntries(output.dims[3]) > 0
                    THEN maxClassEntries(output.dims[3]) ELSE 0) |->
        ToNumber(At(output.data, OffsetOfRow(k) + 5 + (j - 1)))]

\* c (counted from 0) is an index of a greatest score
IsArgmax(c, scores) ==
    /\ c + 1 \in 1..Len(scores)
    /\ \A j \in 1..Len(scores) : ~QGreater(scores[j], scores[c + 1])

\* C12: in the two implementations that threshold raw scores, the best class
\* of every kept row with class entries is an argmax of its raw class
\* scores, and the confidence of its detection is objectness * that score.
RawModeReportsProduct ==
    (postPc = "done" /\ postImpl \in {"objectness", "raw"}) =>
        \A k \in 1..Len(postRows) :
            (KeptRow(k) /\ Len(ScoresOfRow(k)) > 0) =>
                /\ Resolvable(BestClassOfRow(k))
                /\ IsArgmax(BestClassOfRow(k).num.n, ScoresOfRow(k))
                /\ QEq(ToNumber(postRows[k].value.v.confidence),
                       QMul(ObjectnessOfRow(k),
                            ScoresOfRow(k)[BestClassOfRow(k).num.n + 1]))

\* the final confidence of the k-th row: sigmoid(objectness) * greatest
\* class probability, clamped, in the probabilistic implementation;
\* objectness * greatest raw class score in the two others
FinalConfidenceOfRow(k) ==
    IF postImpl = "probabilistic"
    THEN finalConfidence(ObjectnessOfRow(k),
            MathMaxOf(softmax(classScoresOf(output.data, OffsetOfRow(k), output.dims[3]))))
    ELSE QMul(ObjectnessOfRow(k), MathMaxOf(ScoresOfRow(k)))

\* the confidence threshold of the call
ThresholdOfCall ==
    IF postImpl = "raw" THEN ToNumber(thresholdOf(postArgs)) ELSE CONFIDENCE_THRESHOLD(env)

\* C13: a row with at least one class entry is kept (a detection is pushed
\* for it) if and only if its final confidence is greater than or equal to
\* the confidence threshold.
KeptIffFinalConfidenceReachesThreshold ==
    postPc = "done" =>
        \A k \in 1..Len(postRows) :
            Len(ScoresOfRow(k)) > 0 =>
                (KeptRow(k) <=> QGeq(FinalConfidenceOfRow(k), ThresholdOfCall))

\* the call was made with a negative confidence threshold or a negative
\* suppression threshold
NegativeThreshold ==
    \/ QLess(ThresholdOfCall, Zero)
    \/ postImpl # "raw" /\ QLess(NMS_THRESHOLD(env), Zero)

\* C14: a call of postprocess with a negative threshold ends with an error
\* and returns no list of detections.
NegativeThresholdFailsFast ==
    (postPc = "done" /\ NegativeThreshold) => postResult.kind = "throw"

\* an attribute of the k-th row is missing from the data or is not a finite
\* number
MalformedRow(k) ==
    \E j \in 0..(output.dims[3] - 1) :
        With(At(output.data, OffsetOfRow(k) + j), LAMBDA a :
            a.t # "number" \/ ~IsFinite(a.num))

\* the output tensor without its malformed rows
WellFormedRows ==
    SelectSeq([k \in 1..output.dims[2] |-> k], LAMBDA k : ~MalformedRow(k))
WithoutMalformedRows ==
    [dims |-> <<1, Len(WellFormedRows), output.dims[3]>>,
     data |-> Flatten([i \in 1..Len(WellFormedRows) |->
                 [j \in 1..output.dims[3] |->
                     output.data[OffsetOfRow(WellFormedRows[i]) + j]]])]

\* C18: postprocess of services/imageProcessor.js does not throw on a
\* malformed row; a row with a missing or non-finite attribute yields no
\* detection, and the call returns what it returns for the tensor without
\* its malformed rows.
MalformedRowIsSkipped ==
    (postPc = "done" /\ postImpl = "probabilistic") =>
        /\ postResult.kind = "return"
        /\ \A k \in 1..Len(postRows) : MalformedRow(k) => ~KeptRow(k)
        /\ postResult = postprocess(postImpl, WithoutMalformedRows, env,
                                    storageData, defaults)

(***************************************************************************)
(* Properties of the server                                                *)
(***************************************************************************)
\* C9: while the process runs, no request changes the active dataset or the
\* default table.
StoreIsReadOnly ==
    [][proc = "up" => (storageData' = storageData /\ defaults' = defaults)]_vars

\* C9 witness: a detection request has been answered with the storage record
\* of a label that the dataset holds under a key written differently, and
\* the dataset is still the one that was loaded
StorageAttachedByDetection ==
    /\ reply.route = "detect"
    /\ reply.status = 200
    /\ loadLog.before.state = "present"
    /\ IsDataset(storageData)
    /\ storageData = JSONparse(loadLog.before.text)
    /\ \E k \in 1..Len(reply.body.v.detections.items) :
          /\ reply.call.value[k].v.label = Label(K_Fresh_Banana)
          /\ reply.body.v.detections.items[k].v.storage.v.storage = Str("Keep cool")

\* the fields of the storage record of a delivered detection
StorageFields ==
    {"storage", "shelf_life", "tips", "signs_of_spoilage", "status", "waste_disposal"}

\* the placeholder record: every field neutral
UnknownStorage ==
    Obj([storage |-> Str("Unknown"), shelf_life |-> Null,
         tips |-> Str("No data available"),
         signs_of_spoilage |-> Str("No data available"),
         status |-> Str("Unknown"), waste_disposal |-> Null])

\* the detections of the last response, which answers a detection request
\* with success
DeliveredDetections ==
    IF reply.route = "detect" /\ reply.status = 200
    THEN reply.body.v.detections.items ELSE <<>>

\* the lookup of a label in the active dataset found a record, and s gives
\* each of the storage fields as that record does
IsRecordOfLabel(s, lbl) ==
    With(getStorageData(storageData, defaults, lbl), LAMBDA c :
        /\ c.kind = "return"
        /\ IsRecord(c.value)
        /\ \A f \in StorageFields :
              f \in DOMAIN c.value.v /\ s.v[f] = c.value.v[f])

\* C17: every detection delivered with a label carries a storage record that
\* is not null and is either the record of the dataset key that matches the
\* label or the placeholder whose every field is neutral, never a record
\* filled in part.
DeliveredStorageIsRecordOrPlaceholder ==
    \A k \in 1..Len(DeliveredDetections) :
        With(DeliveredDetections[k].v, LAMBDA d :
            d.label.t = "string" =>
                /\ IsRecord(d.storage)
                /\ \/ d.storage = UnknownStorage
                   \/ IsRecordOfLabel(d.storage, d.label))

(***************************************************************************)
(* Properties of the lookup of plural labels                               *)
(***************************************************************************)
\* the keys of the active dataset of which the label is the plural: the key
\* followed by s, in any letter case
SingularKeysOf(lbl) ==
    { i \in 1..Len(storageData.e) :
        toLowerCase(lbl) = toLowerCase(storageData.e[i].key) \o <<"s">> }

\* C21: a label that is a dataset key followed by s, in any letter case, is
\* looked up as that key: getStorageData returns for it what it returns for
\* the key, a record.
PluralLabelResolvesToKey ==
    ItemLookedUp =>
        \A i \in SingularKeysOf(reply.item) :
            /\ reply.call.kind = "return"
            /\ IsRecord(reply.call.value)
            /\ reply.call = getStorageData(storageData, defaults,
                                           Label(storageData.e[i].key))

(***************************************************************************)
(* loadModel and its callers                                               *)
(***************************************************************************)
\* who holds the session: services/imageProcessor.js under server.js, whose
\* start-up awaits preloadModel() before app.listen lets a request in, or
\* unnamed/part_001, whose processImage is all the module exports
LoadImplementations == {"services/imageProcessor.js", "unnamed/part_001"}

\* caller 1 is preloadModel where there is one; the others are calls of
\* detectObjects / processImage
Preloader == 1

\* the call of caller c may be made: behind server.js a request is let in
\* once the preload has settled
MayCall(c) ==
    \/ loadImpl = "unnamed/part_001"
    \/ c = Preloader
    \/ loaders[Preloader] \in {"returned", "threw"}

MaxCreations == 3  \* creations followed in one behaviour

\* loadModel is called and runs to its first await: `if (!this.model)` is
\* read, and a creation is started when it holds
LoadModelCalled(c) ==
    /\ loaders[c] = "idle"
    /\ MayCall(c)
    /\ IF session = "null"
       THEN /\ creations < MaxCreations
            /\ creations' = creations + 1
            /\ loaders' = [loaders EXCEPT ![c] = "creating"]
       ELSE /\ creations' = creations
            /\ loaders' = [loaders EXCEPT ![c] = "returned"]
    /\ UNCHANGED <<loadImpl, session, loadFailed>>

\* `this.model = await ort.InferenceSession.create(...)`: the promise
\* resolves and the session is assigned
CreateResolves(c) ==
    /\ loaders[c] = "creating"
    /\ session' = "loaded"
    /\ loaders' = [loaders EXCEPT ![c] = "returned"]
    /\ UNCHANGED <<loadImpl, creations, loadFailed>>

\* the promise rejects, and loadModel throws
CreateRejects(c) ==
    /\ loaders[c] = "creating"
    /\ loaders' = [loaders EXCEPT ![c] = "threw"]
    /\ loadFailed' = TRUE
    /\ UNCHANGED <<loadImpl, session, creations>>

\* a caller that is done calls again (the next request)
CallsAgain(c) ==
    /\ c # Preloader
    /\ loaders[c] \in {"returned", "threw"}
    /\ loaders' = [loaders EXCEPT ![c] = "idle"]
    /\ UNCHANGED <<loadImpl, session, creations, loadFailed>>

InitLoad ==
    /\ loadImpl \in LoadImplementations
    /\ session = "null"
    /\ loaders = [c \in 1..MaxCallers |-> "idle"]
    /\ creations = 0
    /\ loadFailed = FALSE
    /\ NormIdle
    /\ NmsIdle
    /\ StoreIdle
    /\ DetectIdle
    /\ PostIdle

NextLoad ==
    \E c \in 1..MaxCallers :
        /\ \/ LoadModelCalled(c)
           \/ CreateResolves(c)
           \/ CreateRejects(c)
           \/ CallsAgain(c)
        /\ UNCHANGED <<normVars, nmsVars, storeVars, detectVars, postVars>>

SpecLoad == InitLoad /\ [][NextLoad]_vars

\* C22: as long as no creation has failed, the inference session is created
\* at most once in a process, however the calls of loadModel interleave.
SessionCreatedAtMostOnce ==
    ~loadFailed => creations <= 1

(***************************************************************************)
(* Properties of POST /api/detect                                          *)
(***************************************************************************)
\* the server with its timer: a socket timeout that is due does happen; the
\* inference service is not bound to reply
SpecFair ==
    Init /\ [][Next]_vars /\ WF_requests(\E r \in 1..MaxRequests : SocketTimeout(r))

\* the inference service failed: no connection, a status other than 200, a
\* body that is no JSON
ServiceFailed(outcome) ==
    \/ outcome.kind = "error"
    \/ outcome.kind = "response" /\ (outcome.status # 200 \/ ~Parses(outcome.body))

\* C23: every POST /api/detect request with a file is answered in the end,
\* and no request is answered twice; the answer is 400 exactly when no file
\* was uploaded, 200 with success = true or 500 with success = false
\* otherwise, and 500 when the inference service failed.
EveryDetectRequestAnsweredOnce ==
    /\ \A r \in 1..MaxRequests :
          (requests[r].pc = "inferring") ~> (requests[r].responses = 1)
    /\ [](\A r \in 1..MaxRequests : requests[r].responses <= 1)
    /\ [](reply.route = "detect" =>
            /\ (reply.status = 400) <=> (reply.outcome = NoOutcome)
            /\ reply.status \in {200, 400, 500}
            /\ reply.status = 200 => reply.body.v.success = Bool(TRUE)
            /\ reply.status = 500 => reply.body.v.success = Bool(FALSE)
            /\ ServiceFailed(reply.outcome) => reply.status = 500)

ImageUrlNamesExistingFile ==
    [][\A r \in 1..MaxRequests :
          ( /\ requests[r].pc = "inferring"
            /\ requests'[r].pc = "answered"
            /\ reply'.status = 200 )
          => Field(reply'.body, "imageUrl").name \in uploads']_vars

\* C26: when the override file holds a text that parses as JSON, a lookup of
\* a label returns a record or null and does not throw, and the lookup
\* without a label returns a mapping from labels to records.
LoadedFromParsedFile ==
    /\ proc = "up"
    /\ loadLog.before.state = "present"
    /\ loadLog.io # "read fails"
    /\ Parses(loadLog.before.text)
LookupsTotalOnParsedFile ==
    LoadedFromParsedFile =>
        /\ reply.route = "item" =>
              /\ reply.call.kind = "return"
              /\ (reply.call.value = Null \/ IsRecord(reply.call.value))
        /\ reply.route = "all" =>
              /\ reply.call.kind = "return"
              /\ IsDataset(reply.call.value)

\* the detections the inference service sent, for a reply that was answered
\* with success
SuppliedDetections ==
    OrElse(Field(JSONparse(reply.outcome.body), "detections"), Arr(<<>>)).items

\* C27: in a success response, croppedImage of each detection is the
\* cropped_path the inference service sent for it, and null when the service
\* sent none.
CroppedImageIsSuppliedPath ==
    (reply.route = "detect" /\ reply.status = 200) =>
        \A k \in 1..Len(DeliveredDetections) :
            Field(DeliveredDetections[k], "croppedImage") =
                OrElse(Field(SuppliedDetections[k], "cropped_path"), Null)

\* a value as the client reads it from the body that res.json sent
OnTheWire(x) == JSONparse(JSONstringify(x))

IsNumberIn01(x) ==
    x.t = "number" /\ IsFinite(x.num) /\ QGeq(x.num, Zero) /\ QGeq(One, x.num)

\* the four coordinates of every detection of a success response are numbers
\* within [0,1]
DeliveredBoxesWithinUnit ==
    \A k \in 1..Len(DeliveredDetections) :
        \A f \in {"x", "y", "width", "height"} :
            IsNumberIn01(OnTheWire(Field(Field(DeliveredDetections[k], "bbox"), f)))

\* C28: every detection of a success response has its four coordinates
\* within [0,1] and a number as its confidence, whatever the detector sent.
DeliveredBoxesAndConfidenceNumeric ==
    /\ DeliveredBoxesWithinUnit
    /\ \A k \in 1..Len(DeliveredDetections) :
          OnTheWire(Field(DeliveredDetections[k], "confidence")).t = "number"

\* the detections as detectObjects handed them to processImage, for a reply
\* whose processImage resolved
DetectedBeforeEnrichment == detectObjects(reply.outcome, storageData, defaults).value

\* the shelf_life of the storage_info of a detection
ShelfLifeOf(det) == Field(Field(det, "storage_info"), "shelf_life")
HasShelfLife(det) ==
    /\ ~Nullish(ShelfLifeOf(det))
    /\ ~(ShelfLifeOf(det).t = "number" /\ QEq(ShelfLifeOf(det).num, Zero))

EnrichedAsClaimed(det, out) ==
    /\ ("detection_date" \in DOMAIN out.v) <=> HasShelfLife(det)
    /\ ("remaining_life" \in DOMAIN out.v) <=> HasShelfLife(det)
    /\ HasShelfLife(det) => out.v.remaining_life = ShelfLifeOf(det)
    /\ \A f \in DOMAIN det.v : f \in DOMAIN out.v /\ out.v[f] = det.v[f]
    /\ DOMAIN out.v \subseteq
          DOMAIN det.v \cup {"detection_date", "remaining_life", "croppedImage"}

\* C29: processImage adds detection_date and remaining_life to exactly the
\* detections whose storage_info has a shelf_life other than null and 0,
\* remaining_life is that shelf_life, and every field detectObjects gave is
\* passed on as it was.
ShelfLifeFieldsAddedIffShelfLife ==
    (reply.outcome # NoOutcome /\ reply.call.kind = "return") =>
        \A k \in 1..Len(reply.call.value) :
            EnrichedAsClaimed(DetectedBeforeEnrichment[k], reply.call.value[k])

\* C29 witness: processImage resolved with a detection that was given a
\* remaining_life and one that was not
SomeEnrichedSomeNot ==
    /\ reply.outcome # NoOutcome
    /\ reply.call.kind = "return"
    /\ \E k \in 1..Len(reply.call.value) :
          "remaining_life" \in DOMAIN reply.call.value[k].v
    /\ \E k \in 1..Len(reply.call.value) :
          "remaining_life" \notin DOMAIN reply.call.value[k].v

\* the threshold in force is the configured one when that reads as a number,
\* and the default dflt otherwise
ConfiguredOrDefault(configured, effective, dflt) ==
    IF IsNaN(parseFloat(configured)) THEN effective = dflt
    ELSE effective = parseFloat(configured)

\* C30: the confidence and NMS thresholds that postprocess ran with are the
\* configured values whenever these read as numbers, 0 included, and the
\* defaults 0.5 and 0.4 only when a value is not set or is not a number.
ThresholdsAreConfiguredValues ==
    (postPc = "done" /\ postImpl # "raw") =>
        /\ ConfiguredOrDefault(env.CONFIDENCE_THRESHOLD, CONFIDENCE_THRESHOLD(env), Q(1, 2))
        /\ ConfiguredOrDefault(env.NMS_THRESHOLD, NMS_THRESHOLD(env), Q(2, 5))

====
